---- MODULE Spec2Model ----
(***************************************************************************)
(* A model of pyxtal/crystal.py: the random_crystal classes and the        *)
(* functions generate_crystal calls.                                       *)
(*                                                                         *)
(* Numbers.  The program computes in floating point; the model computes in *)
(* integers:                                                               *)
(*   - a length (cell edge, distance, radius, tolerance) is a whole number *)
(*     of milli-Angstroms, so 1.0 A is 1000 and 1e-3 A is 1;               *)
(*   - a volume is a whole number of 1e-3 A^3, so 1.0 A^3 is 1000;         *)
(*   - a fractional coordinate is a whole number of 1/Den of a cell edge;  *)
(*   - an angle is the pair of 5*cos and 5*sin, so that the angles of the  *)
(*     3-4-5 triangle and the right angle are exact.                       *)
(* None, False and the strings of the program are strings of the model.    *)
(***************************************************************************)
EXTENDS Integers, Sequences, FiniteSets, TLC

\* ---------------------------------------------------------------- numbers

Den == 4
Half == Den \div 2
Quarter == Den \div 4

None == "None"
False == "False"

Abs(x) == IF x < 0 THEN -x ELSE x
Min2(x, y) == IF x <= y THEN x ELSE y
Max2(x, y) == IF x >= y THEN x ELSE y

\* the sequence s with its values computed: an array
array(s) == s \o <<>>

SetMax(S) == CHOOSE x \in S : \A y \in S : y <= x

SetMin(S) == CHOOSE x \in S : \A y \in S : x <= y

RECURSIVE MinFrom(_, _, _)
MinFrom(s, i, best) ==
    IF i > Len(s) THEN best ELSE MinFrom(s, i + 1, IF s[i] < best THEN s[i] ELSE best)

\* the least value of a sequence that is not empty
SeqMin(s) == MinFrom(s, 2, s[1])

RECURSIVE IsqrtIter(_, _, _)
IsqrtIter(n, lo, hi) ==
    IF hi - lo <= 1 THEN lo
    ELSE LET mid == (lo + hi) \div 2
         IN  IF mid * mid <= n THEN IsqrtIter(n, mid, hi) ELSE IsqrtIter(n, lo, mid)

\* math.sqrt on a non-negative number, rounded down to the unit
Isqrt(n) == IsqrtIter(n, 0, 46341)

RECURSIVE SeqSum(_)
SeqSum(s) == IF s = <<>> THEN 0 ELSE Head(s) + SeqSum(Tail(s))

Range(s) == {s[i] : i \in 1..Len(s)}

\* ---------------------------------------------------------------- angles

Ang(c5, s5) == [c |-> c5, s |-> s5]
Ang90 == Ang(0, 5)
\* the obtuse and the acute angles of the 3-4-5 triangle
Ang127 == Ang(-3, 4)
Ang143 == Ang(-4, 3)
Ang53 == Ang(3, 4)
\* 2*pi/3: its cosine -1/2 and its sine sqrt(3)/2 in whole fifths, cut short
Ang120 == Ang(-2, 4)

\* ---------------------------------------------------------------- vectors

Zero3 == <<0, 0, 0>>
VAdd(u, v) == <<u[1] + v[1], u[2] + v[2], u[3] + v[3]>>
VSub(u, v) == <<u[1] - v[1], u[2] - v[2], u[3] - v[3]>>

\* ---------------------------------------------------------------- Element

Species == {"Na", "Cl", "C"}

\* Element(specie).covalent_radius
covalent_radius(specie) ==
    CASE specie = "Na" -> 1660
      [] specie = "Cl" -> 1020
      [] specie = "C" -> 760

\* Element(specie).vdw_radius
vdw_radius(specie) ==
    CASE specie = "Na" -> 2270
      [] specie = "Cl" -> 1750
      [] specie = "C" -> 1700

\* Element(specie).z
z(specie) ==
    CASE specie = "Na" -> 11
      [] specie = "Cl" -> 17
      [] specie = "C" -> 6

\* ---------------------------------------------------------------- operations

\* a symmetry operation: rotation matrix (rows) and translation (in 1/Den)
Op(R, t) == [rotation_matrix |-> R, translation |-> t]

I3 == <<<<1, 0, 0>>, <<0, 1, 0>>, <<0, 0, 1>>>>
NegI3 == <<<<-1, 0, 0>>, <<0, -1, 0>>, <<0, 0, -1>>>>
Zero33 == <<<<0, 0, 0>>, <<0, 0, 0>>, <<0, 0, 0>>>>

\* op.operate(point)
operate(op, point) ==
    LET R == op.rotation_matrix
        t == op.translation
        row(k) == R[k][1] * point[1] + R[k][2] * point[2] + R[k][3] * point[3] + t[k]
    IN  <<row(1), row(2), row(3)>>

\* a Wyckoff position without freedom: one fixed point for each translation
Fixed(ts) == array([i \in 1..Len(ts) |-> Op(Zero33, ts[i])])

\* ---------------------------------------------------------------- symmetry tables
\* The tables of pyxtal.symmetry and pyxtal.database, which generate_crystal
\* reads through get_wyckoffs, get_layer and get_rod: a list of Wyckoff
\* positions, the general position first and the position "a" last.

\* P-1: space group 2
wyckoffs_P1bar ==
    << <<Op(I3, Zero3), Op(NegI3, Zero3)>>,
       Fixed(<< <<Half, Half, Half>> >>),
       Fixed(<< <<0, Half, Half>> >>),
       Fixed(<< <<Half, 0, Half>> >>),
       Fixed(<< <<Half, Half, 0>> >>),
       Fixed(<< <<Half, 0, 0>> >>),
       Fixed(<< <<0, Half, 0>> >>),
       Fixed(<< <<0, 0, Half>> >>),
       Fixed(<< <<0, 0, 0>> >>) >>

\* a rotation matrix that scales the three axes
Diag(a, b, c) == <<<<a, 0, 0>>, <<0, b, 0>>, <<0, 0, c>>>>

\* P2/m: space group 10, unique axis b
wyckoffs_P2m ==
    << <<Op(I3, Zero3), Op(Diag(-1, 1, -1), Zero3), Op(NegI3, Zero3), Op(Diag(1, -1, 1), Zero3)>>,
       <<Op(Diag(1, 0, 1), <<0, Half, 0>>), Op(Diag(-1, 0, -1), <<0, Half, 0>>)>>,
       <<Op(Diag(1, 0, 1), Zero3), Op(Diag(-1, 0, -1), Zero3)>>,
       <<Op(Diag(0, 1, 0), <<Half, 0, Half>>), Op(Diag(0, -1, 0), <<Half, 0, Half>>)>>,
       <<Op(Diag(0, 1, 0), <<0, 0, Half>>), Op(Diag(0, -1, 0), <<0, 0, Half>>)>>,
       <<Op(Diag(0, 1, 0), <<Half, 0, 0>>), Op(Diag(0, -1, 0), <<Half, 0, 0>>)>>,
       <<Op(Diag(0, 1, 0), Zero3), Op(Diag(0, -1, 0), Zero3)>>,
       Fixed(<< <<Half, Half, Half>> >>),
       Fixed(<< <<Half, 0, Half>> >>),
       Fixed(<< <<0, Half, Half>> >>),
       Fixed(<< <<0, 0, Half>> >>),
       Fixed(<< <<Half, Half, 0>> >>),
       Fixed(<< <<Half, 0, 0>> >>),
       Fixed(<< <<0, Half, 0>> >>),
       Fixed(<< <<0, 0, 0>> >>) >>

\* Fm-3m: space group 225, its positions of multiplicity up to 16 (8c, 4b, 4a).
\* The others (24d and larger) hold more points than any count the model
\* asks for, so that no function of the program can select them.
wyckoffs_Fm3m ==
    << Fixed(<< <<Quarter, Quarter, Quarter>>, <<Quarter, 3 * Quarter, 3 * Quarter>>,
                <<3 * Quarter, Quarter, 3 * Quarter>>, <<3 * Quarter, 3 * Quarter, Quarter>>,
                <<Quarter, Quarter, 3 * Quarter>>, <<Quarter, 3 * Quarter, Quarter>>,
                <<3 * Quarter, Quarter, Quarter>>, <<3 * Quarter, 3 * Quarter, 3 * Quarter>> >>),
       Fixed(<< <<Half, Half, Half>>, <<Half, 0, 0>>, <<0, Half, 0>>, <<0, 0, Half>> >>),
       Fixed(<< <<0, 0, 0>>, <<0, Half, Half>>, <<Half, 0, Half>>, <<Half, Half, 0>> >>) >>

\* p-1: layer group 2
wyckoffs_L2 ==
    << <<Op(I3, Zero3), Op(NegI3, Zero3)>>,
       Fixed(<< <<Half, Half, 0>> >>),
       Fixed(<< <<0, Half, 0>> >>),
       Fixed(<< <<Half, 0, 0>> >>),
       Fixed(<< <<0, 0, 0>> >>) >>

\* p-1: Rod group 2
wyckoffs_R2 ==
    << <<Op(I3, Zero3), Op(NegI3, Zero3)>>,
       Fixed(<< <<0, 0, Half>> >>),
       Fixed(<< <<0, 0, 0>> >>) >>

\* get_wyckoffs(sg)
get_wyckoffs(sg) ==
    CASE sg = 2 -> wyckoffs_P1bar
      [] sg = 10 -> wyckoffs_P2m
      [] sg = 225 -> wyckoffs_Fm3m

\* get_layer(number)
get_layer(number) == CASE number = 2 -> wyckoffs_L2

\* get_rod(number)
get_rod(number) == CASE number = 2 -> wyckoffs_R2

\* get_wyckoffs(sg, organized=True): the positions grouped by multiplicity
RECURSIVE organize(_)
organize(ws) ==
    IF ws = <<>> THEN <<>>
    ELSE LET rest == organize(Tail(ws))
         IN  IF rest # <<>> /\ Len(Head(rest)[1]) = Len(Head(ws))
             THEN <<(<<Head(ws)>> \o Head(rest))>> \o Tail(rest)
             ELSE <<(<<Head(ws)>>)>> \o rest

\* sg_symbol_from_int_number(sg)
sg_symbol_from_int_number(sg) ==
    CASE sg = 2 -> <<"P", "-", "1">>
      [] sg = 10 -> <<"P", "2", "/", "m">>
      [] sg = 225 -> <<"F", "m", "-", "3", "m">>

\* Layergroup(number).sgnumber
Layergroup_sgnumber(number) == CASE number = 2 -> 2

\* ---------------------------------------------------------------- cellsize

\* cellsize of a primitive cell, whatever the centring
cellsize_primitive(sg) == 1

\* a number that cellsize returns
int(n) == [type |-> "int", value |-> n]

\* a string that cellsize returns
str(text) == [type |-> "str", value |-> text]

\* cellsize giving 1 whatever the symbol
cellsize_of_primitive(symbol) == int(1)

\* cellsize from `letter = symbol[0]` on: the value returned, with its type
cellsize_of(symbol) ==
    LET letter == symbol[1]
    IN  IF letter = "P" THEN int(1)
        ELSE IF letter \in {"A", "C", "I"} THEN int(2)
        ELSE IF letter \in {"R"} THEN int(3)
        ELSE IF letter \in {"F"} THEN int(4)
        ELSE str("Error: Could not determine lattice type")

cellsize(sg) == cellsize_of(sg_symbol_from_int_number(sg)).value

\* ---------------------------------------------------------------- distances

\* filtered_coords(coords, PBC) on one point: modulo 1 on the periodic axes
filtered_coord(p, PBC) == array([k \in 1..3 |-> IF k \in PBC THEN p[k] % Den ELSE p[k]])

filtered_coords(coords, PBC) ==
    array([i \in 1..Len(coords) |-> filtered_coord(coords[i], PBC)])

\* create_matrix(PBC): the translations to the neighbouring cells, in its order
create_matrix(PBC) ==
    LET l(k) == IF k \in PBC THEN <<-1, 0, 1>> ELSE <<0>>
        l1 == l(1)
        l2 == l(2)
        l3 == l(3)
        n2 == Len(l2)
        n3 == Len(l3)
    IN  array([m \in 1..(Len(l1) * n2 * n3) |->
            << l1[((m - 1) \div (n2 * n3)) + 1],
               l2[(((m - 1) \div n3) % n2) + 1],
               l3[((m - 1) % n3) + 1] >>])

\* np.dot(v, lattice) for a fractional vector v in 1/den
cartesian_den(v, lattice, den) ==
    << (v[1] * lattice[1][1] + v[2] * lattice[2][1] + v[3] * lattice[3][1]) \div den,
       (v[1] * lattice[1][2] + v[2] * lattice[2][2] + v[3] * lattice[3][2]) \div den,
       (v[1] * lattice[1][3] + v[2] * lattice[2][3] + v[3] * lattice[3][3]) \div den >>

cartesian(v, lattice) == cartesian_den(v, lattice, Den)

norm2(w) == w[1] * w[1] + w[2] * w[2] + w[3] * w[3]

\* the squared lengths of the images of the fractional difference v
image_norms(v, lattice, m) ==
    array([i \in 1..Len(m) |->
        norm2(cartesian(<<v[1] + Den * m[i][1], v[2] + Den * m[i][2], v[3] + Den * m[i][3]>>,
                        lattice))])

\* distance(xyz, lattice, PBC): the minimum-image length of a difference
distance(xyz, lattice, PBC) ==
    Isqrt(SeqMin(image_norms(filtered_coord(xyz, PBC), lattice, create_matrix(PBC))))

\* distance_matrix(points1, points2, lattice, PBC)
distance_matrix(points1, points2, lattice, PBC) ==
    LET m == create_matrix(PBC)
        p1 == filtered_coords(points1, PBC)
        p2 == filtered_coords(points2, PBC)
    IN  array([i \in 1..Len(p1) |-> array([j \in 1..Len(p2) |->
            Isqrt(SeqMin(image_norms(VSub(p1[i], p2[j]), lattice, m)))])])

\* ---------------------------------------------------------------- check_distance

tol_m == 1000

\* tols_from_species giving max(0.5 * covalent_radius, tol_m), the tolerance
\* of the merge
tols_from_species_halved(species) ==
    array([i \in 1..Len(species) |-> IF covalent_radius(species[i]) \div 2 > tol_m
                                     THEN covalent_radius(species[i]) \div 2 ELSE tol_m])

\* tols_from_species: a list of species names to their covalent radii
tols_from_species(species) == array([i \in 1..Len(species) |-> covalent_radius(species[i])])

check_distance(coord1, coord2, tols1, tols2, lattice, PBC) ==
    IF Len(coord1) <= 1 \/ Len(coord2) <= 1 THEN TRUE
    ELSE LET t1 == tols_from_species(tols1)
             t2 == tols_from_species(tols2)
             d == distance_matrix(coord1, coord2, lattice, PBC)
         IN  ~ \E i \in 1..Len(coord1), j \in 1..Len(coord2) : d[i][j] < t1[i] + t2[j]

\* ---------------------------------------------------------------- find_short_dist

\* np.where(d <= tol): the index pairs in row-major order
where_le(d, tol) ==
    LET n == Len(d)
        all == array([m \in 1..(n * n) |-> <<((m - 1) \div n) + 1, ((m - 1) % n) + 1>>])
    IN  SelectSeq(all, LAMBDA ij : d[ij[1]][ij[2]] <= tol)

\* the loop over np.unique(ijs[0]), from row i on.  Rows and columns are
\* numbered from 1, so that ijs[1][i] is the i-th entry of the column list.
RECURSIVE short_pairs(_, _, _)
short_pairs(d, ijs, i) ==
    IF i > Len(d) THEN <<>>
    ELSE IF i \notin {ijs[m][1] : m \in 1..Len(ijs)} THEN short_pairs(d, ijs, i + 1)
    ELSE LET j == ijs[i][2]
         IN  IF j <= i THEN short_pairs(d, ijs, i + 1)
             ELSE <<(<<i, j, d[i][j]>>)>> \o short_pairs(d, ijs, i + 1)

RECURSIVE add_edges(_, _)
add_edges(graph, pairs) ==
    IF pairs = <<>> THEN graph
    ELSE LET pair0 == Head(pairs)[1]
             pair1 == Head(pairs)[2]
             g1 == [graph EXCEPT ![pair0] = Append(@, pair1)]
             g2 == [g1 EXCEPT ![pair1] = Append(@, pair0)]
         IN  add_edges(g2, Tail(pairs))

\* find_short_dist, given the distance matrix d of the points
pairs_graph(n, pairs) ==
    [pairs |-> pairs, graph |-> add_edges(array([i \in 1..n |-> <<>>]), pairs)]

\* the pairs within d_min + 1e-3 of all the short pairs
shortest_pairs(n, all_pairs) ==
    IF Len(all_pairs) > 0
    THEN pairs_graph(n, SelectSeq(all_pairs, LAMBDA pr :
            pr[3] <= SetMin({all_pairs[m][3] : m \in 1..Len(all_pairs)}) + 1))
    ELSE pairs_graph(n, all_pairs)

find_short_dist_d(d, tol) == shortest_pairs(Len(d), short_pairs(d, where_le(d, tol), 1))

find_short_dist(coor, lattice, tol, PBC) ==
    find_short_dist_d(distance_matrix(coor, coor, lattice, PBC), tol)

\* ---------------------------------------------------------------- connected_components

\* the loop of add_neighbors over the neighbours nbrs, with the list seen
RECURSIVE visit(_, _, _)
visit(graph, nbrs, seen) ==
    IF nbrs = <<>> THEN seen
    ELSE LET x == Head(nbrs)
         IN  IF x \in Range(seen) THEN visit(graph, Tail(nbrs), seen)
             ELSE visit(graph, Tail(nbrs), visit(graph, graph[x], Append(seen, x)))

add_neighbors(graph, el) == visit(graph, graph[el], <<el>>)

RECURSIVE components_from(_, _)
components_from(graph, unseen) ==
    IF unseen = <<>> THEN <<>>
    ELSE LET x == unseen[Len(unseen)]
             comp == add_neighbors(graph, x)
             left == SelectSeq(SubSeq(unseen, 1, Len(unseen) - 1), LAMBDA y : y \notin Range(comp))
         IN  <<comp>> \o components_from(graph, left)

\* every index a component of its own, whatever the edges
connected_components_single(graph) == array([i \in 1..Len(graph) |-> <<i>>])

connected_components(graph) == components_from(graph, array([i \in 1..Len(graph) |-> i]))

\* ---------------------------------------------------------------- get_center

\* np.round of the coordinate v / Den: to the nearest integer, a half to the even one
np_round(v) ==
    LET q == v \div Den
        r == v % Den
    IN  IF 2 * r < Den THEN q
        ELSE IF 2 * r > Den THEN q + 1
        ELSE IF q % 2 = 0 THEN q ELSE q + 1

\* the squared value of dist_min = 10.0
dist_min0 == 100000000

\* the loop over atom2 in get_center: the matrix_min it leaves
RECURSIVE center_inner(_, _, _, _, _, _, _)
RECURSIVE center_nearer(_, _, _, _, _, _, _, _)

\* np.argmin(dists)
argmin(dists, mn) == SetMin({i \in 1..Len(dists) : dists[i] = mn})

\* the body of the loop over atom2, given the (squared) lengths dists of the
\* images of the difference of the two atoms
center_nearer(xyzs, lattice, matrix0, atom1, atom2, dist_min, matrix_min, dists) ==
    IF SeqMin(dists) < dist_min
    THEN center_inner(xyzs, lattice, matrix0, atom1, atom2 + 1, SeqMin(dists),
                      matrix0[argmin(dists, SeqMin(dists))])
    ELSE center_inner(xyzs, lattice, matrix0, atom1, atom2 + 1, dist_min, matrix_min)

center_inner(xyzs, lattice, matrix0, atom1, atom2, dist_min, matrix_min) ==
    IF atom2 >= atom1 THEN matrix_min
    ELSE center_nearer(xyzs, lattice, matrix0, atom1, atom2, dist_min, matrix_min,
                       image_norms(VSub(xyzs[atom1], xyzs[atom2]), lattice, matrix0))

\* the loop over atom1 in get_center: the shifted points
RECURSIVE center_outer(_, _, _, _, _)
center_outer(xyzs, lattice, matrix0, atom1, matrix_min) ==
    IF atom1 > Len(xyzs) THEN xyzs
    ELSE LET mm == center_inner(xyzs, lattice, matrix0, atom1, 1, dist_min0, matrix_min)
             moved == [xyzs EXCEPT ![atom1] =
                          <<@[1] + Den * mm[1], @[2] + Den * mm[2], @[3] + Den * mm[3]>>]
         IN  center_outer(moved, lattice, matrix0, atom1 + 1, mm)

\* get_center(xyzs, lattice, PBC); the mean is rounded down to 1/Den
get_center(xyzs, lattice, PBC) ==
    LET rounded == array([i \in 1..Len(xyzs) |->
                       array([k \in 1..3 |-> xyzs[i][k] - Den * np_round(xyzs[i][k])])])
        shifted == center_outer(rounded, lattice, create_matrix(PBC), 2, Zero3)
    IN  array([k \in 1..3 |->
            SeqSum(array([i \in 1..Len(shifted) |-> shifted[i][k]])) \div Len(shifted)])

\* ---------------------------------------------------------------- check_wyckoff_position

NoIndex == -1

count(s, x) == Cardinality({i \in 1..Len(s) : s[i] = x})

same_points(s1, s2) ==
    /\ Len(s1) = Len(s2)
    /\ \A x \in Range(s1) \cup Range(s2) : count(s1, x) = count(s2, x)

\* the orbit of the point g under the Wyckoff position wp
orbit(wp, g, PBC) == array([i \in 1..Len(wp) |-> filtered_coord(operate(wp[i], g), PBC)])

\* check_wyckoff_position(points, wyckoffs, w_symm_all, PBC): the index (from 0)
\* of the first position one of whose orbits is the point set, with the
\* generating point; NoIndex stands for False
check_wyckoff_position(points, wyckoffs, PBC) ==
    LET fp == filtered_coords(points, PBC)
        gens(i) == {m \in 1..Len(fp) : same_points(orbit(wyckoffs[i], fp[m], PBC), fp)}
        found == {i \in 1..Len(wyckoffs) : Len(wyckoffs[i]) = Len(fp) /\ gens(i) # {}}
    IN  IF found = {} THEN [index |-> NoIndex, point |-> <<>>]
        ELSE LET i == SetMin(found)
             IN  [index |-> i - 1, point |-> fp[SetMin(gens(i))]]

\* ---------------------------------------------------------------- merge_coordinate

\* the centres of the groups of points
groups_center(coor, lattice, PBC, groups) ==
    array([g \in 1..Len(groups) |->
        get_center(array([m \in 1..Len(groups[g]) |-> coor[groups[g][m]]]), lattice, PBC)])

\* the value merge_coordinate returns: the points, the index of their
\* Wyckoff position (good_merge) and its generating point
merged_as(coor, w) == [coor |-> coor, index |-> w.index, point |-> w.point]

not_merged(coor) == [coor |-> coor, index |-> NoIndex, point |-> <<>>]

RECURSIVE merge_coordinate(_, _, _, _, _)
RECURSIVE merge_groups(_, _, _, _, _, _)
RECURSIVE merge_found(_, _, _, _, _, _)

\* the points merged group by group are tried as a Wyckoff position
merge_groups(coor, merged, lattice, wyckoffs, tol, PBC) ==
    IF check_wyckoff_position(merged, wyckoffs, PBC).index = NoIndex
    THEN not_merged(coor)
    ELSE merge_coordinate(merged, lattice, wyckoffs, tol, PBC)

\* one pass of the loop of merge_coordinate, found being what find_short_dist gave
merge_found(coor, lattice, wyckoffs, tol, PBC, found) ==
    IF Len(found.pairs) > 0
    THEN IF Len(coor) > Len(wyckoffs[Len(wyckoffs)])
         THEN merge_groups(coor,
                           groups_center(coor, lattice, PBC, connected_components(found.graph)),
                           lattice, wyckoffs, tol, PBC)
         ELSE not_merged(coor)
    ELSE merged_as(coor, check_wyckoff_position(coor, wyckoffs, PBC))

merge_coordinate(coor, lattice, wyckoffs, tol, PBC) ==
    merge_found(coor, lattice, wyckoffs, tol, PBC, find_short_dist(coor, lattice, tol, PBC))

\* ---------------------------------------------------------------- choose_wyckoff

\* the False that choose_wyckoff returns
NoWyckoff == <<>>

\* choose_wyckoff without the test of the multiplicity against number
choose_wyckoff_any(wyckoffs, number, high) ==
    IF high THEN Range(wyckoffs[1])
    ELSE UNION {Range(wyckoffs[g]) : g \in 1..Len(wyckoffs)}

\* choose_wyckoff going from low to high when rand_u(0,1) > 0.5
choose_wyckoff_low(wyckoffs, number, high) ==
    LET fits == {g \in 1..Len(wyckoffs) : Len(wyckoffs[g][1]) <= number}
    IN  IF fits = {} THEN {NoWyckoff}
        ELSE IF high THEN Range(wyckoffs[CHOOSE g \in fits : \A h \in fits : h <= g])
        ELSE UNION {Range(wyckoffs[g]) : g \in fits}

\* choose_wyckoff(wyckoffs, number): the values it can return when
\* rand_u(0,1) > 0.5 (high) and when not
choose_wyckoff(wyckoffs, number, high) ==
    LET fits == {g \in 1..Len(wyckoffs) : Len(wyckoffs[g][1]) <= number}
    IN  IF high
        THEN IF fits = {} THEN {NoWyckoff}
             ELSE Range(wyckoffs[SetMin(fits)])
        ELSE LET good_wyckoff == UNION {Range(wyckoffs[g]) : g \in fits}
             IN  IF good_wyckoff # {} THEN good_wyckoff ELSE {NoWyckoff}

\* ---------------------------------------------------------------- check_compatible

\* op.rotation_matrix.all() != 0.0: every entry of the matrix is nonzero
all_nonzero(R) == \A i \in 1..3, j \in 1..3 : R[i][j] # 0

\* np.allclose(op.rotation_matrix, np.zeros([3,3]))
allclose_zero(R) == \A i \in 1..3, j \in 1..3 : R[i][j] = 0

RECURSIVE flatten(_)
flatten(groups) == IF groups = <<>> THEN <<>> ELSE Head(groups) \o flatten(Tail(groups))

\* compatible_while without has_freedom = True
RECURSIVE compatible_while_forgetting(_, _)
compatible_while_forgetting(wp, st) ==
    IF st.remaining >= Len(wp) /\ wp \notin st.removed_wyckoffs
    THEN compatible_while_forgetting(wp,
            IF allclose_zero(wp[1].rotation_matrix)
            THEN [st EXCEPT !.remaining = @ - Len(wp), !.removed_wyckoffs = @ \cup {wp}]
            ELSE [st EXCEPT !.remaining = @ - Len(wp)])
    ELSE st

\* the while loop over one Wyckoff position wp
RECURSIVE compatible_while(_, _)
compatible_while(wp, st) ==
    IF st.remaining >= Len(wp) /\ wp \notin st.removed_wyckoffs
    THEN compatible_while(wp,
            IF allclose_zero(wp[1].rotation_matrix)
            THEN [st EXCEPT !.remaining = @ - Len(wp), !.removed_wyckoffs = @ \cup {wp}]
            ELSE [st EXCEPT !.remaining = @ - Len(wp), !.has_freedom = TRUE])
    ELSE st

\* the loops over the groups and their positions
RECURSIVE compatible_wps(_, _)
compatible_wps(wps, st) ==
    IF wps = <<>> THEN st ELSE compatible_wps(Tail(wps), compatible_while(Head(wps), st))

\* the loop over numIons, from the state st on: "False", "True" or "0"
RECURSIVE compatible_ions(_, _, _)
compatible_ions(wyckoffs_organized, numIons, st) ==
    IF numIons = <<>> THEN (IF st.has_freedom THEN "True" ELSE "0")
    ELSE LET numIon == Head(numIons)
             last_group == wyckoffs_organized[Len(wyckoffs_organized)]
             N_site_last == Len(last_group[1])
             op == last_group[Len(last_group)][1]
         IN  IF numIon % N_site_last > 0 THEN "False"
             ELSE IF all_nonzero(op.rotation_matrix)
             THEN compatible_ions(wyckoffs_organized, Tail(numIons), [st EXCEPT !.has_freedom = TRUE])
             ELSE LET st2 == compatible_wps(flatten(wyckoffs_organized),
                                            [st EXCEPT !.remaining = numIon])
                  IN  IF st2.remaining # 0 THEN "False"
                      ELSE compatible_ions(wyckoffs_organized, Tail(numIons), st2)

check_compatible(wyckoffs_organized, numIons) ==
    compatible_ions(wyckoffs_organized, numIons,
                    [remaining |-> 0, removed_wyckoffs |-> {}, has_freedom |-> FALSE])

\* ---------------------------------------------------------------- para2matrix

\* the radicand c**2 - c1**2 - c2**2 of the lower-triangular format
para2matrix_radicand(cell_para) ==
    LET c == cell_para[3]
        alpha == cell_para[4]
        beta == cell_para[5]
        gamma == cell_para[6]
        c1 == (c * beta.c) \div 5
        c2 == (c * (5 * alpha.c - beta.c * gamma.c)) \div (5 * gamma.s)
    IN  c * c - c1 * c1 - c2 * c2

\* para2matrix(cell_para), where math.sqrt accepts the radicand
para2matrix(cell_para) ==
    LET a == cell_para[1]
        b == cell_para[2]
        c == cell_para[3]
        alpha == cell_para[4]
        beta == cell_para[5]
        gamma == cell_para[6]
        c1 == (c * beta.c) \div 5
        c2 == (c * (5 * alpha.c - beta.c * gamma.c)) \div (5 * gamma.s)
    IN  << <<a, 0, 0>>,
           <<(b * gamma.c) \div 5, (b * gamma.s) \div 5, 0>>,
           <<c1, c2, Isqrt(c * c - c1 * c1 - c2 * c2)>> >>

\* np.linalg.det(matrix), in 1e-3 A^3
det(m) ==
    LET e(i, j) == m[i][j] \div 100
    IN  e(1, 1) * (e(2, 2) * e(3, 3) - e(2, 3) * e(3, 2))
      - e(1, 2) * (e(2, 1) * e(3, 3) - e(2, 3) * e(3, 1))
      + e(1, 3) * (e(2, 1) * e(3, 2) - e(2, 2) * e(3, 1))

\* ---------------------------------------------------------------- estimate_volume

\* 4/3*pi*r**3 in 1e-3 A^3
sphere(r) == ((((r \div 10) * (r \div 10) * (r \div 10)) \div 1000) * 4189) \div 1000

RECURSIVE volume_sum(_, _)
volume_sum(numIons, radii) ==
    IF numIons = <<>> THEN 0
    ELSE Head(numIons) * sphere(Head(radii)) + volume_sum(Tail(numIons), Tail(radii))

\* the volumes drawn in the model
VolumeSamples == {39304, 64000, 125000, 216000, 512000}

\* estimate_volume(numIons, species, factor): the volumes it can return, each
\* radius being drawn between the covalent and the van der Waals radius
estimate_volume(numIons, species, factor) ==
    {v \in VolumeSamples :
        /\ (factor * volume_sum(numIons, [i \in 1..Len(species) |-> covalent_radius(species[i])]))
               \div 1000 <= v
        /\ v <= (factor * volume_sum(numIons, [i \in 1..Len(species) |-> vdw_radius(species[i])]))
               \div 1000}

\* ---------------------------------------------------------------- lattice samplers

maxattempts == 100

\* the edge lengths drawn in the model
EdgeSamples == {2000, 3400, 4000, 8000, 16000}

\* the volume a * b * c in 1e-3 A^3
edge_volume(a, b, c) == (a \div 100) * (b \div 100) * (c \div 100)

RECURSIVE IcbrtIter(_, _, _)
IcbrtIter(n, lo, hi) ==
    IF hi - lo <= 1 THEN lo
    ELSE LET mid == (lo + hi) \div 2
         IN  IF mid * mid * mid <= n THEN IcbrtIter(n, mid, hi) ELSE IcbrtIter(n, lo, mid)

\* the cube root, rounded down
Icbrt(n) == IcbrtIter(n, 0, 1291)

\* the test "Check that lattice meets requirements" of the three samplers, on
\* lengths in 1e-2 A; minangle = pi/6, maxangle = pi - minangle, max_ratio = 10
meets_requirements(para, minvec_) ==
    LET a == para[1] \div 10
        b == para[2] \div 10
        c == para[3] \div 10
        alpha == para[4]
        beta == para[5]
        gamma == para[6]
        minvec == minvec_ \div 10
        abc == a * b * c
        below_maxvec(x) == x * minvec * minvec < abc
        \* the cosine (times 5) of the larger of two angles
        cos_max(u, v) == Min2(u.c, v.c)
        smallvec == SetMin({(a * cos_max(beta, gamma)) \div 5,
                            (b * cos_max(alpha, gamma)) \div 5,
                            (c * cos_max(alpha, beta)) \div 5})
        above_minangle(u) == u.c <= 0 \/ 4 * u.c * u.c < 75
        below_maxangle(u) == u.c >= 0 \/ 4 * u.c * u.c < 75
        max_ratio == 10
    IN  /\ minvec * minvec * minvec < abc
        /\ a > minvec /\ b > minvec /\ c > minvec
        /\ below_maxvec(a) /\ below_maxvec(b) /\ below_maxvec(c)
        /\ smallvec < minvec
        /\ above_minangle(alpha) /\ above_minangle(beta) /\ above_minangle(gamma)
        /\ below_maxangle(alpha) /\ below_maxangle(beta) /\ below_maxangle(gamma)
        /\ a < max_ratio * b /\ a < max_ratio * c /\ b < max_ratio * c
        /\ b < max_ratio * a /\ c < max_ratio * a /\ c < max_ratio * b

\* the return values of a sampler that draws up to maxattempts candidates from
\* the set drawn and returns the first that meets the requirements: any
\* candidate that meets them, and None (the empty tuple) when maxattempts
\* draws can all fail
sampler_results(drawn, minvec) ==
    {para \in drawn : meets_requirements(para, minvec)}
    \cup (IF maxattempts > 0 /\ \A para \in drawn : meets_requirements(para, minvec)
          THEN {} ELSE {<<>>})

\* generate_lattice drawing three free edges and right angles for every group
generate_lattice_drawn_orthorhombic(sg, volume) ==
    {<<e[1], e[2], e[3], Ang90, Ang90, Ang90>> : e \in
        {e \in EdgeSamples \X EdgeSamples \X EdgeSamples : edge_volume(e[1], e[2], e[3]) = volume}}

\* the parameters one pass of the loop of generate_lattice can draw.  The
\* angles drawn are right angles (triclinic) and right or 3-4-5 angles
\* (monoclinic beta); the edges are those of EdgeSamples of the right volume.
\* For the trigonal and hexagonal groups (143 to 194) x = sqrt(3.)/2. is
\* 433/500.
generate_lattice_drawn(sg, volume) ==
    CASE sg <= 2 ->
        {<<e[1], e[2], e[3], Ang90, Ang90, Ang90>> : e \in
            {e \in EdgeSamples \X EdgeSamples \X EdgeSamples : edge_volume(e[1], e[2], e[3]) = volume}}
      [] sg > 2 /\ sg <= 15 ->
        {<<e[1], e[2], e[3], Ang90, e[4], Ang90>> : e \in
            {e \in EdgeSamples \X EdgeSamples \X EdgeSamples \X {Ang90, Ang53, Ang127} :
                (edge_volume(e[1], e[2], e[3]) * e[4].s) \div 5 = volume}}
      [] sg > 15 /\ sg <= 74 ->
        {<<e[1], e[2], e[3], Ang90, Ang90, Ang90>> : e \in
            {e \in EdgeSamples \X EdgeSamples \X EdgeSamples : edge_volume(e[1], e[2], e[3]) = volume}}
      [] sg > 74 /\ sg <= 142 ->
        {<<e[1], e[1], e[2], Ang90, Ang90, Ang90>> : e \in
            {e \in EdgeSamples \X EdgeSamples : edge_volume(e[1], e[1], e[2]) = volume}}
      [] sg > 142 /\ sg <= 194 ->
        {<<e[1], e[1], e[2], Ang90, Ang90, Ang120>> : e \in
            {e \in EdgeSamples \X EdgeSamples :
                (edge_volume(e[1], e[1], e[2]) * 433) \div 500 = volume}}
      [] sg > 194 ->
        LET s == 100 * Icbrt(volume)
        IN  {<<s, s, s, Ang90, Ang90, Ang90>>}

generate_lattice(sg, volume, minvec) == sampler_results(generate_lattice_drawn(sg, volume), minvec)

\* the thickness a sampler draws when none is given:
\* np.cbrt(volume)*(v[0]/(v[0]*v[1]*v[2])), which is np.cbrt(volume) or more
drawn_thickness(volume) == {t \in EdgeSamples : t >= 100 * Icbrt(volume)}

\* the parameters one pass of the loop of generate_lattice_2D can draw, for the
\* triclinic layer groups (1 and 2): the shear matrix drawn is the identity,
\* so that x = 1 and ratio = 1.  thickness is <<>> for None, else <<t>>.  The
\* edges a = b = sqrt(volume / thickness) are rounded down to 1e-1 A.
generate_lattice_2D_drawn(num, volume, thickness) ==
    CASE num <= 2 ->
        {<<100 * Isqrt(volume \div (t \div 100)), 100 * Isqrt(volume \div (t \div 100)), t,
           Ang90, Ang90, Ang90>> :
            t \in (IF thickness = <<>> THEN drawn_thickness(volume) ELSE {thickness[1]})}

generate_lattice_2D(num, volume, thickness, minvec) ==
    sampler_results(generate_lattice_2D_drawn(num, volume, thickness), minvec)

\* the angles of a monoclinic Rod group of unique axis a, were the angle
\* drawn assigned to alpha
unique_axis_a_alpha(angle) == [alhpa |-> angle, alpha |-> angle, beta |-> Ang90, gamma |-> Ang90]

\* the angles of a monoclinic Rod group of unique axis a (3 to 7) after
\* `alhpa = gaussian(minangle, maxangle)`: alpha, beta and gamma keep the
\* pi/2 they were given before the branch
unique_axis_a(angle) == [alhpa |-> angle, alpha |-> Ang90, beta |-> Ang90, gamma |-> Ang90]

\* the same for generate_lattice_1D, the triclinic Rod groups (1 and 2) and
\* the monoclinic ones of unique axis a (3 to 7), where x = sin(alpha) and
\* abc[0] * abc[1] = volume / (abc[2] * x);
\* area is <<>> for None, else <<the area in 1e-2 A^2>>
generate_lattice_1D_drawn(num, volume, area) ==
    CASE num <= 2 ->
        {<<100 * Isqrt(volume \div (t \div 100)), 100 * Isqrt(volume \div (t \div 100)), t,
           Ang90, Ang90, Ang90>> :
            t \in (IF area = <<>> THEN drawn_thickness(volume) ELSE {100 * (volume \div area[1])})}
      [] num > 2 /\ num <= 7 ->
        {<<e[1], e[2], e[3], unique_axis_a(e[4]).alpha, unique_axis_a(e[4]).beta,
           unique_axis_a(e[4]).gamma>> : e \in
            {e \in EdgeSamples \X EdgeSamples
                    \X (IF area = <<>> THEN drawn_thickness(volume)
                        ELSE {100 * (volume \div area[1])})
                    \X {Ang90, Ang53, Ang127} :
                (edge_volume(e[1], e[2], e[3]) * unique_axis_a(e[4]).alpha.s) \div 5 = volume}}

generate_lattice_1D(num, volume, area, minvec) ==
    sampler_results(generate_lattice_1D_drawn(num, volume, area), minvec)

\* ---------------------------------------------------------------- Add_vacuum

\* the final coordinates are whole numbers of 1/OutDen of a cell edge
OutDen == 1000

vacuum == 10000

\* np.linalg.norm(v)
norm(v) == Isqrt(norm2(v))

\* coor . lattice . inv(new_lattice), in 1/OutDen, by the adjugate of
\* new_lattice in 1e-1 A
new_coordinates(coor, lattice, new_lattice) ==
    LET e(i, j) == new_lattice[i][j] \div 100
        adj == << <<e(2, 2) * e(3, 3) - e(2, 3) * e(3, 2),
                    e(1, 3) * e(3, 2) - e(1, 2) * e(3, 3),
                    e(1, 2) * e(2, 3) - e(1, 3) * e(2, 2)>>,
                  <<e(2, 3) * e(3, 1) - e(2, 1) * e(3, 3),
                    e(1, 1) * e(3, 3) - e(1, 3) * e(3, 1),
                    e(1, 3) * e(2, 1) - e(1, 1) * e(2, 3)>>,
                  <<e(2, 1) * e(3, 2) - e(2, 2) * e(3, 1),
                    e(1, 2) * e(3, 1) - e(1, 1) * e(3, 2),
                    e(1, 1) * e(2, 2) - e(1, 2) * e(2, 1)>> >>
        \* the determinant in 1e-5 A^3 per 1/OutDen
        d == (det(new_lattice) * 100) \div OutDen
        absolute_coords == array([i \in 1..Len(coor) |-> cartesian(coor[i], lattice)])
    IN  array([i \in 1..Len(coor) |-> array([j \in 1..3 |->
            (absolute_coords[i][1] * adj[1][j] + absolute_coords[i][2] * adj[2][j]
             + absolute_coords[i][3] * adj[3][j]) \div d])])

\* Add_vacuum returning the relative coordinates it was given
Add_vacuum_unmoved(lattice, coor, PBC) ==
    [lattice |-> array([a \in 1..3 |->
                    IF a \notin PBC
                    THEN array([j \in 1..3 |->
                             lattice[a][j] + (lattice[a][j] * vacuum) \div norm(lattice[a])])
                    ELSE lattice[a]]),
     coor |-> array([i \in 1..Len(coor) |->
                  array([j \in 1..3 |-> (coor[i][j] * OutDen) \div Den])])]

Add_vacuum(lattice, coor, PBC) ==
    LET new_lattice == array([a \in 1..3 |->
            IF a \notin PBC
            THEN array([j \in 1..3 |->
                     lattice[a][j] + (lattice[a][j] * vacuum) \div norm(lattice[a])])
            ELSE lattice[a]])
    IN  [lattice |-> new_lattice, coor |-> new_coordinates(coor, lattice, new_lattice)]

\* ---------------------------------------------------------------- random_crystal

Msg1 == "Error: the number is incompatible with the wyckoff sites choice"
Msg2 == "Error: failed in the cycle of generating structures"

\* the budgets generate_crystal is called with run from 1 to MaxBudget
MaxBudget == 2

\* the budgets of a crystal whose Wyckoff positions have no freedom
RigidBudget == 5

\* the points np.random.random(3) draws in the model, in 1/Den
PointSamples == {<<0, 0, 0>>, <<1, 1, 1>>, <<2, 1, 3>>}

\* the constructor calls of the model: random_crystal(sg, ...),
\* random_crystal_2D(number, ..., thickness, ...), random_crystal_1D(number,
\* ..., area, ...).  A field a class does not have is 0 or <<>>.
Calls ==
    {[dim |-> 3, sg |-> 2, number |-> 0, species |-> c[1], numIons |-> c[2],
      thickness |-> <<>>, area |-> <<>>] :
        c \in {<< <<"Na">>, <<2>> >>, << <<"Na", "Cl">>, <<1, 1>> >>, << <<"Na", "Cl">>, <<2, 1>> >>}}
    \cup
    {[dim |-> 3, sg |-> 225, number |-> 0, species |-> <<"Na", "Cl">>, numIons |-> n,
      thickness |-> <<>>, area |-> <<>>] : n \in {<<4, 4>>, <<1, 1>>}}
    \cup
    {[dim |-> 2, sg |-> Layergroup_sgnumber(2), number |-> 2, species |-> <<"Na">>,
      numIons |-> <<2>>, thickness |-> t, area |-> <<>>] : t \in {<<>>, <<4000>>}}
    \cup
    {[dim |-> 1, sg |-> 0, number |-> 2, species |-> <<"Na", "Cl">>,
      numIons |-> <<1, 1>>, thickness |-> <<>>, area |-> a] : a \in {<<>>, <<1600>>}}

VARIABLES
    pc,                 \* where generate_crystal stands
    dim, sg, number, species, numIons0, factor, thickness, area,
    numIons, volume, wyckoffs, wyckoffs_organized, PBC,
    numattempts, struct, valid, lattice, coordinates, sites,
    max1, max2, max3, degrees, minvector,
    cycle1, cycle2, cycle3, sp, numIon_added,
    cell_para, cell_matrix, coordinates_total, sites_total,
    coordinates_tmp, sites_tmp, good_structure,
    returned,           \* the value generate_crystal returned
    exception,          \* the exception that left generate_crystal
    cancel              \* <<>>, or <<the pass of the loop over cycle1 in which a
                        \* caller asked for the generation to stop>>

fields == <<dim, sg, number, species, numIons0, factor, thickness, area,
            numIons, volume, wyckoffs, wyckoffs_organized, PBC>>
results == <<struct, valid, lattice, coordinates, sites, returned, exception>>
budgets == <<max1, max2, max3, degrees, minvector>>
accumulators == <<coordinates_total, sites_total, coordinates_tmp, sites_tmp, good_structure>>
vars == <<pc, fields, numattempts, results, budgets, cycle1, cycle2, cycle3, sp, numIon_added,
          cell_para, cell_matrix, accumulators, cancel>>

\* numIons0 * n, elementwise
times(numIons_, n) == array([i \in 1..Len(numIons_) |-> numIons_[i] * n])

\* the state a constructor leaves when it calls generate_crystal
Constructed(c) ==
    /\ dim = c.dim /\ sg = c.sg /\ number = c.number
    /\ species = c.species /\ numIons0 = c.numIons /\ factor = 1000
    /\ thickness = c.thickness /\ area = c.area
    /\ numIons = (IF c.dim = 1 THEN c.numIons ELSE times(c.numIons, cellsize(c.sg)))
    /\ volume \in estimate_volume(numIons, species, factor)
    /\ wyckoffs = (CASE c.dim = 3 -> get_wyckoffs(c.sg)
                     [] c.dim = 2 -> get_layer(c.number)
                     [] c.dim = 1 -> get_rod(c.number))
    /\ wyckoffs_organized = organize(wyckoffs)
    /\ PBC = (CASE c.dim = 3 -> {1, 2, 3} [] c.dim = 2 -> {1, 2} [] c.dim = 1 -> {3})
    /\ numattempts = 0

\* what generate_crystal has not yet set
Unset ==
    /\ struct = "unset" /\ valid = "unset" /\ lattice = <<>> /\ coordinates = <<>>
    /\ sites = <<>> /\ returned = "unset" /\ exception = "None"
    /\ degrees = "unset" /\ minvector = 0
    /\ cycle1 = 0 /\ cycle2 = 0 /\ cycle3 = 0 /\ sp = 0 /\ numIon_added = 0
    /\ cell_para = <<>> /\ cell_matrix = <<>>
    /\ coordinates_total = <<>> /\ sites_total = <<>>
    /\ coordinates_tmp = <<>> /\ sites_tmp = <<>> /\ good_structure = FALSE
    /\ cancel = <<>>

Init ==
    /\ pc = "start"
    /\ \E c \in Calls : Constructed(c)
    /\ max1 \in 1..MaxBudget /\ max2 \in 1..MaxBudget /\ max3 \in 1..MaxBudget
    /\ Unset

\* ---------------------------------------------------------------- generate_crystal

\* Failed recording None, as the incompatible input does
Failed_recording_None ==
    /\ struct' = None
    /\ valid' = "False"
    /\ returned' = None
    /\ pc' = "done"
    /\ UNCHANGED <<lattice, coordinates, sites, exception>>

\* the tail of generate_crystal after the loop over cycle1
Failed ==
    /\ struct' = Msg2
    /\ valid' = "False"
    /\ returned' = Msg2
    /\ pc' = "done"
    /\ UNCHANGED <<lattice, coordinates, sites, exception>>

\* CheckCompatible without the return on degrees being False
CheckCompatible_not_returning ==
    /\ pc = "start"
    /\ degrees' = check_compatible(wyckoffs_organized, numIons)
    /\ IF degrees' = "0"
       THEN max1' = RigidBudget /\ max2' = RigidBudget /\ max3' = RigidBudget
       ELSE UNCHANGED <<max1, max2, max3>>
    /\ minvector' = Max2(2 * SetMax({covalent_radius(species[i]) : i \in 1..Len(species)}),
                         tol_m)
    /\ pc' = "outer"
    /\ UNCHANGED <<struct, valid, returned>>
    /\ UNCHANGED <<fields, numattempts, lattice, coordinates, sites, exception,
                   cycle1, cycle2, cycle3, sp, numIon_added, cell_para, cell_matrix,
                   accumulators, cancel>>

\* CheckCompatible testing degrees == False, which 0 satisfies as False does
CheckCompatible_equal_False ==
    /\ pc = "start"
    /\ degrees' = check_compatible(wyckoffs_organized, numIons)
    /\ IF degrees' \in {False, "0"}
       THEN /\ struct' = None
            /\ valid' = "False"
            /\ returned' = None
            /\ pc' = "done"
            /\ UNCHANGED <<max1, max2, max3, minvector>>
       ELSE /\ minvector' = Max2(2 * SetMax({covalent_radius(species[i]) : i \in 1..Len(species)}),
                                 tol_m)
            /\ pc' = "outer"
            /\ UNCHANGED <<max1, max2, max3, struct, valid, returned>>
    /\ UNCHANGED <<fields, numattempts, lattice, coordinates, sites, exception,
                   cycle1, cycle2, cycle3, sp, numIon_added, cell_para, cell_matrix,
                   accumulators, cancel>>

\* degrees = self.check_compatible() and the branch on it; the minimum vector
CheckCompatible ==
    /\ pc = "start"
    /\ degrees' = check_compatible(wyckoffs_organized, numIons)
    /\ IF degrees' = False
       THEN /\ struct' = None
            /\ valid' = "False"
            /\ returned' = None
            /\ pc' = "done"
            /\ UNCHANGED <<max1, max2, max3, minvector>>
       ELSE /\ IF degrees' = "0"
               THEN max1' = RigidBudget /\ max2' = RigidBudget /\ max3' = RigidBudget
               ELSE UNCHANGED <<max1, max2, max3>>
            /\ minvector' = Max2(2 * SetMax({covalent_radius(species[i]) : i \in 1..Len(species)}),
                                 tol_m)
            /\ pc' = "outer"
            /\ UNCHANGED <<struct, valid, returned>>
    /\ UNCHANGED <<fields, numattempts, lattice, coordinates, sites, exception,
                   cycle1, cycle2, cycle3, sp, numIon_added, cell_para, cell_matrix,
                   accumulators, cancel>>

\* the values the lattice sampler of the crystal's dimension can return
sampled ==
    CASE dim = 3 -> generate_lattice(sg, volume, minvector)
      [] dim = 2 -> generate_lattice_2D(number, volume, thickness, minvector)
      [] dim = 1 -> generate_lattice_1D(number, volume, area, minvector)

\* SampleLatticeFrom with the ValueError caught and the next pass begun
SampleLatticeFrom_catching(returns) ==
    /\ pc = "outer"
    /\ cycle1 < max1
    /\ \E para \in returns :
        /\ cell_para' = para
        /\ (para = <<>> \/ para2matrix_radicand(para) >= 0 => UNCHANGED cycle1)
        /\ IF para = <<>>
           THEN \* cell_para is None: break
                /\ Failed
                /\ UNCHANGED <<cell_matrix, accumulators, cycle2>>
           ELSE IF para2matrix_radicand(para) < 0
           THEN /\ cycle1' = cycle1 + 1
                /\ UNCHANGED <<pc, results, cell_matrix, accumulators, cycle2>>
           ELSE /\ cell_matrix' = para2matrix(para)
                /\ IF Abs(volume - det(cell_matrix')) > 1000
                   THEN \* sys.exit(0)
                        /\ exception' = "SystemExit"
                        /\ pc' = "raised"
                        /\ UNCHANGED <<struct, valid, returned, lattice, coordinates, sites,
                                       accumulators, cycle2>>
                   ELSE /\ coordinates_total' = <<>>
                        /\ sites_total' = <<>>
                        /\ good_structure' = FALSE
                        /\ cycle2' = 0
                        /\ pc' = "middle"
                        /\ UNCHANGED <<results, coordinates_tmp, sites_tmp>>
    /\ UNCHANGED <<fields, numattempts, budgets, cycle3, sp, numIon_added, cancel>>

\* SampleLatticeFrom returning without a crystal once cancel is set
SampleLatticeFrom_cancellable(returns) ==
    /\ pc = "outer"
    /\ cycle1 < max1
    /\ \E para \in returns :
        /\ cell_para' = para
        /\ IF para = <<>> \/ cancel # <<>>
           THEN \* cell_para is None: break
                /\ Failed
                /\ UNCHANGED <<cell_matrix, accumulators, cycle2>>
           ELSE IF para2matrix_radicand(para) < 0
           THEN \* math.sqrt raises ValueError, which nothing catches
                /\ exception' = "ValueError"
                /\ pc' = "raised"
                /\ UNCHANGED <<struct, valid, returned, lattice, coordinates, sites,
                               cell_matrix, accumulators, cycle2>>
           ELSE /\ cell_matrix' = para2matrix(para)
                /\ IF Abs(volume - det(cell_matrix')) > 1000
                   THEN \* sys.exit(0)
                        /\ exception' = "SystemExit"
                        /\ pc' = "raised"
                        /\ UNCHANGED <<struct, valid, returned, lattice, coordinates, sites,
                                       accumulators, cycle2>>
                   ELSE /\ coordinates_total' = <<>>
                        /\ sites_total' = <<>>
                        /\ good_structure' = FALSE
                        /\ cycle2' = 0
                        /\ pc' = "middle"
                        /\ UNCHANGED <<results, coordinates_tmp, sites_tmp>>
    /\ UNCHANGED <<fields, numattempts, budgets, cycle1, cycle3, sp, numIon_added, cancel>>

\* SampleLatticeFrom without the test of the determinant
SampleLatticeFrom_unchecked(returns) ==
    /\ pc = "outer"
    /\ cycle1 < max1
    /\ \E para \in returns :
        /\ cell_para' = para
        /\ IF para = <<>>
           THEN \* cell_para is None: break
                /\ Failed
                /\ UNCHANGED <<cell_matrix, accumulators, cycle2>>
           ELSE IF para2matrix_radicand(para) < 0
           THEN \* math.sqrt raises ValueError, which nothing catches
                /\ exception' = "ValueError"
                /\ pc' = "raised"
                /\ UNCHANGED <<struct, valid, returned, lattice, coordinates, sites,
                               cell_matrix, accumulators, cycle2>>
           ELSE /\ cell_matrix' = para2matrix(para)
                /\ IF FALSE
                   THEN \* sys.exit(0)
                        /\ exception' = "SystemExit"
                        /\ pc' = "raised"
                        /\ UNCHANGED <<struct, valid, returned, lattice, coordinates, sites,
                                       accumulators, cycle2>>
                   ELSE /\ coordinates_total' = <<>>
                        /\ sites_total' = <<>>
                        /\ good_structure' = FALSE
                        /\ cycle2' = 0
                        /\ pc' = "middle"
                        /\ UNCHANGED <<results, coordinates_tmp, sites_tmp>>
    /\ UNCHANGED <<fields, numattempts, budgets, cycle1, cycle3, sp, numIon_added, cancel>>

\* SampleLatticeFrom going on with the next pass of the loop over cycle1 when
\* cell_para is None
SampleLatticeFrom_continuing(returns) ==
    /\ pc = "outer"
    /\ cycle1 < max1
    /\ \E para \in returns :
        /\ cell_para' = para
        /\ IF para = <<>>
           THEN \* cell_para is None: continue
                /\ cycle1' = cycle1 + 1
                /\ pc' = "outer"
                /\ UNCHANGED <<results, cell_matrix, accumulators, cycle2>>
           ELSE IF para2matrix_radicand(para) < 0
           THEN \* math.sqrt raises ValueError, which nothing catches
                /\ exception' = "ValueError"
                /\ pc' = "raised"
                /\ UNCHANGED <<struct, valid, returned, lattice, coordinates, sites,
                               cell_matrix, accumulators, cycle2>>
           ELSE /\ cell_matrix' = para2matrix(para)
                /\ IF Abs(volume - det(cell_matrix')) > 1000
                   THEN \* sys.exit(0)
                        /\ exception' = "SystemExit"
                        /\ pc' = "raised"
                        /\ UNCHANGED <<struct, valid, returned, lattice, coordinates, sites,
                                       accumulators, cycle2>>
                   ELSE /\ coordinates_total' = <<>>
                        /\ sites_total' = <<>>
                        /\ good_structure' = FALSE
                        /\ cycle2' = 0
                        /\ pc' = "middle"
                        /\ UNCHANGED <<results, coordinates_tmp, sites_tmp>>
    /\ cell_para' # <<>> => UNCHANGED cycle1
    /\ UNCHANGED <<fields, numattempts, budgets, cycle3, sp, numIon_added, cancel>>

\* one pass of the loop over cycle1 up to the loop over cycle2, the sampler
\* returning one of the values of the set returns
SampleLatticeFrom(returns) ==
    /\ pc = "outer"
    /\ cycle1 < max1
    /\ \E para \in returns :
        /\ cell_para' = para
        /\ IF para = <<>>
           THEN \* cell_para is None: break
                /\ Failed
                /\ UNCHANGED <<cell_matrix, accumulators, cycle2>>
           ELSE IF para2matrix_radicand(para) < 0
           THEN \* math.sqrt raises ValueError, which nothing catches
                /\ exception' = "ValueError"
                /\ pc' = "raised"
                /\ UNCHANGED <<struct, valid, returned, lattice, coordinates, sites,
                               cell_matrix, accumulators, cycle2>>
           ELSE /\ cell_matrix' = para2matrix(para)
                /\ IF Abs(volume - det(cell_matrix')) > 1000
                   THEN \* sys.exit(0)
                        /\ exception' = "SystemExit"
                        /\ pc' = "raised"
                        /\ UNCHANGED <<struct, valid, returned, lattice, coordinates, sites,
                                       accumulators, cycle2>>
                   ELSE /\ coordinates_total' = <<>>
                        /\ sites_total' = <<>>
                        /\ good_structure' = FALSE
                        /\ cycle2' = 0
                        /\ pc' = "middle"
                        /\ UNCHANGED <<results, coordinates_tmp, sites_tmp>>
    /\ UNCHANGED <<fields, numattempts, budgets, cycle1, cycle3, sp, numIon_added, cancel>>

SampleLattice == SampleLatticeFrom(sampled)

\* the loop over cycle1 has run max1 times
OuterExhausted ==
    /\ pc = "outer"
    /\ cycle1 >= max1
    /\ Failed
    /\ UNCHANGED <<fields, numattempts, budgets, cycle1, cycle2, cycle3, sp, numIon_added,
                   cell_para, cell_matrix, accumulators, cancel>>

\* the head of one pass of the loop over cycle2, up to the first species
MiddleIter ==
    /\ pc = "middle"
    /\ cycle2 < max2
    /\ coordinates_tmp' = coordinates_total
    /\ sites_tmp' = sites_total
    /\ sp' = 1
    /\ numIon_added' = 0
    /\ cycle3' = 0
    /\ pc' = "inner"
    /\ UNCHANGED <<fields, numattempts, results, budgets, cycle1, cycle2, cell_para, cell_matrix,
                   coordinates_total, sites_total, good_structure, cancel>>

\* MiddleExhausted leaving the loop over cycle2 after its first pass
MiddleExhausted_early ==
    /\ pc = "middle"
    /\ cycle2 >= 1
    /\ cycle1' = cycle1 + 1
    /\ pc' = "outer"
    /\ UNCHANGED <<fields, numattempts, results, budgets, cycle2, cycle3, sp, numIon_added,
                   cell_para, cell_matrix, accumulators, cancel>>

\* the loop over cycle2 has run max2 times: good_structure is False, and the
\* loop over cycle1 goes on
MiddleExhausted ==
    /\ pc = "middle"
    /\ cycle2 >= max2
    /\ cycle1' = cycle1 + 1
    /\ pc' = "outer"
    /\ UNCHANGED <<fields, numattempts, results, budgets, cycle2, cycle3, sp, numIon_added,
                   cell_para, cell_matrix, accumulators, cancel>>

\* the point drawn, moved for 2D and 1D crystals
moved_point(point) ==
    IF dim = 2 \/ (dim = 1 /\ number < 46)
    THEN array([a \in 1..3 |-> IF a \notin PBC THEN point[a] - Half ELSE point[a]])
    ELSE point

\* the accumulators of the species after one pass of the loop over cycle3;
\* good tells that ops and good_merge were not False
kept(good) ==
    [coordinates_tmp |-> coordinates_tmp, sites_tmp |-> sites_tmp,
     numIon_added |-> numIon_added, good |-> good]

\* add_orbit counting one atom for the orbit added, whatever its size
add_orbit_counting_one(coords_toadd, specie) ==
    IF check_distance(coordinates_tmp, coords_toadd, sites_tmp,
                      [i \in 1..Len(coords_toadd) |-> specie], cell_matrix, PBC)
    THEN [coordinates_tmp |-> coordinates_tmp \o coords_toadd,
          sites_tmp |-> sites_tmp \o [i \in 1..Len(coords_toadd) |-> specie],
          numIon_added |-> numIon_added + 1,
          good |-> TRUE]
    ELSE [coordinates_tmp |-> coordinates_tmp, sites_tmp |-> sites_tmp,
          numIon_added |-> numIon_added, good |-> TRUE]

\* coords_toadd is checked against the atoms placed and added
add_orbit(coords_toadd, specie) ==
    IF check_distance(coordinates_tmp, coords_toadd, sites_tmp,
                      [i \in 1..Len(coords_toadd) |-> specie], cell_matrix, PBC)
    THEN [coordinates_tmp |-> coordinates_tmp \o coords_toadd,
          sites_tmp |-> sites_tmp \o [i \in 1..Len(coords_toadd) |-> specie],
          numIon_added |-> numIon_added + Len(coords_toadd),
          good |-> TRUE]
    ELSE kept(TRUE)

\* add_merged without the test of good_merge
add_merged_untested(merged, specie) == add_orbit(filtered_coords(merged.coor, PBC), specie)

\* if good_merge is not False
add_merged(merged, specie) ==
    IF merged.index # NoIndex THEN add_orbit(filtered_coords(merged.coor, PBC), specie)
    ELSE kept(FALSE)

\* if ops is not False: the orbit coords of the point is merged and added
add_coords(coords, specie) ==
    IF coords # NoWyckoff
    THEN add_merged(merge_coordinate(coords, cell_matrix, wyckoffs,
                                     Max2(covalent_radius(specie) \div 2, tol_m), PBC),
                    specie)
    ELSE kept(FALSE)

\* the orbits op.operate(point) of the positions choose_wyckoff can return for
\* number atoms; its False gives the empty orbit
orbits(number_) ==
    {array([i \in 1..Len(ops) |-> operate(ops[i], moved_point(point))]) :
        ops \in UNION {choose_wyckoff(wyckoffs_organized, number_, high) : high \in BOOLEAN},
        point \in PointSamples}

\* InnerIter with one more pass of the loop over cycle3
InnerIter_one_more ==
    /\ pc = "inner"
    /\ cycle3 <= max3
    /\ numattempts' = numattempts + 1
    /\ \E after \in {add_coords(coords, species[sp]) : coords \in orbits(numIons[sp] - numIon_added)} :
        /\ coordinates_tmp' = after.coordinates_tmp
        /\ sites_tmp' = after.sites_tmp
        /\ numIon_added' = after.numIon_added
        /\ IF after.good /\ after.numIon_added = numIons[sp]
           THEN /\ coordinates_total' = after.coordinates_tmp
                /\ sites_total' = after.sites_tmp
                /\ pc' = "after_inner"
                /\ UNCHANGED cycle3
           ELSE /\ cycle3' = cycle3 + 1
                /\ UNCHANGED <<coordinates_total, sites_total, pc>>
    /\ UNCHANGED <<fields, results, budgets, cycle1, cycle2, sp, cell_para, cell_matrix,
                   good_structure, cancel>>

\* one pass of the loop over cycle3 for the species sp: a Wyckoff position is
\* chosen, its orbit generated and merged, checked against the atoms placed,
\* and added; the species being complete, the loop is left
InnerIter ==
    /\ pc = "inner"
    /\ cycle3 < max3
    /\ numattempts' = numattempts + 1
    /\ \E after \in {add_coords(coords, species[sp]) : coords \in orbits(numIons[sp] - numIon_added)} :
        /\ coordinates_tmp' = after.coordinates_tmp
        /\ sites_tmp' = after.sites_tmp
        /\ numIon_added' = after.numIon_added
        /\ IF after.good /\ after.numIon_added = numIons[sp]
           THEN /\ coordinates_total' = after.coordinates_tmp
                /\ sites_total' = after.sites_tmp
                /\ pc' = "after_inner"
                /\ UNCHANGED cycle3
           ELSE /\ cycle3' = cycle3 + 1
                /\ UNCHANGED <<coordinates_total, sites_total, pc>>
    /\ UNCHANGED <<fields, results, budgets, cycle1, cycle2, sp, cell_para, cell_matrix,
                   good_structure, cancel>>

\* the loop over cycle3 has run max3 times
InnerExhausted ==
    /\ pc = "inner"
    /\ cycle3 >= max3
    /\ pc' = "after_inner"
    /\ UNCHANGED <<fields, numattempts, results, budgets, cycle1, cycle2, cycle3, sp,
                   numIon_added, cell_para, cell_matrix, accumulators, cancel>>

\* NextSpecies going back to the loop over cycle3 of a species left incomplete,
\* in place of the break
NextSpecies_retrying ==
    /\ pc = "after_inner"
    /\ IF numIon_added # numIons[sp]
       THEN /\ pc' = "inner"
            /\ UNCHANGED <<sp, numIon_added, cycle3>>
       ELSE IF sp = Len(species)
       THEN /\ pc' = "after_species"
            /\ UNCHANGED <<sp, numIon_added, cycle3>>
       ELSE /\ sp' = sp + 1
            /\ numIon_added' = 0
            /\ cycle3' = 0
            /\ pc' = "inner"
    /\ UNCHANGED <<fields, numattempts, results, budgets, cycle1, cycle2, cell_para, cell_matrix,
                   accumulators, cancel>>

\* after the loop over cycle3: the loop over the species breaks, goes on to
\* the next species, or ends
NextSpecies ==
    /\ pc = "after_inner"
    /\ IF numIon_added # numIons[sp] \/ sp = Len(species)
       THEN /\ pc' = "after_species"
            /\ UNCHANGED <<sp, numIon_added, cycle3>>
       ELSE /\ sp' = sp + 1
            /\ numIon_added' = 0
            /\ cycle3' = 0
            /\ pc' = "inner"
    /\ UNCHANGED <<fields, numattempts, results, budgets, cycle1, cycle2, cell_para, cell_matrix,
                   accumulators, cancel>>

\* AfterSpecies without the reset of coordinates_total and sites_total
AfterSpecies_keeping ==
    /\ pc = "after_species"
    /\ IF numIon_added = numIons[sp]
       THEN /\ good_structure' = TRUE
            /\ pc' = "good"
            /\ UNCHANGED cycle2
       ELSE /\ cycle2' = cycle2 + 1
            /\ pc' = "middle"
            /\ UNCHANGED good_structure
    /\ UNCHANGED <<fields, numattempts, results, budgets, cycle1, cycle3, sp, numIon_added,
                   cell_para, cell_matrix, coordinates_total, sites_total,
                   coordinates_tmp, sites_tmp, cancel>>

\* after the loop over the species: the structure is good and the loop over
\* cycle2 is left, or the accumulators are reset for its next pass
AfterSpecies ==
    /\ pc = "after_species"
    /\ IF numIon_added = numIons[sp]
       THEN /\ good_structure' = TRUE
            /\ pc' = "good"
            /\ UNCHANGED <<coordinates_total, sites_total, cycle2>>
       ELSE /\ coordinates_total' = <<>>
            /\ sites_total' = <<>>
            /\ cycle2' = cycle2 + 1
            /\ pc' = "middle"
            /\ UNCHANGED good_structure
    /\ UNCHANGED <<fields, numattempts, results, budgets, cycle1, cycle3, sp, numIon_added,
                   cell_para, cell_matrix, coordinates_tmp, sites_tmp, cancel>>

\* if good_structure: the vacuum is added, the crystal stored; cell_matrix is
\* the array Add_vacuum changes in place
Succeed ==
    /\ pc = "good"
    /\ good_structure
    /\ LET final == Add_vacuum(cell_matrix, coordinates_total, PBC)
       IN  /\ lattice' = final.lattice
           /\ cell_matrix' = final.lattice
           /\ coordinates' = final.coor
    /\ sites' = sites_total
    /\ struct' = "Structure"
    /\ valid' = "True"
    /\ returned' = None
    /\ pc' = "done"
    /\ UNCHANGED <<fields, numattempts, exception, budgets, cycle1, cycle2, cycle3, sp,
                   numIon_added, cell_para, accumulators, cancel>>

Next ==
    \/ CheckCompatible
    \/ SampleLattice
    \/ OuterExhausted
    \/ MiddleIter
    \/ MiddleExhausted
    \/ InnerIter
    \/ InnerExhausted
    \/ NextSpecies
    \/ AfterSpecies
    \/ Succeed

Spec == Init /\ [][Next]_vars

\* generate_crystal has neither returned nor raised
Running == pc \notin {"done", "raised"}

\* the position of the program changes: every step of Next is one, and a
\* running call has its next step
Advance ==
    /\ Running
    /\ pc' \in {"outer", "middle", "inner", "after_inner", "after_species", "good",
               "done", "raised"}
    /\ cycle3' \in {0, cycle3, cycle3 + 1}

\* the interpreter runs the call on: a running call takes its next step, which
\* every state that Running holds in has
FairSpec == Spec /\ WF_<<pc, cycle3>>(Advance)

\* ---------------------------------------------------------------- the outcomes

\* generate_crystal has returned
Returned == pc = "done"

\* generate_crystal has returned with the crystal stored
Accepted == pc = "done" /\ valid = "True"

\* generate_crystal has returned without a crystal
Rejected == pc = "done" /\ valid = "False"

\* the minimum-image distance of the atoms i and j of the stored crystal
crystal_distance(i, j) ==
    LET m == create_matrix(PBC)
        v == array([k \in 1..3 |->
                 IF k \in PBC THEN (coordinates[i][k] - coordinates[j][k]) % OutDen
                 ELSE coordinates[i][k] - coordinates[j][k]])
    IN  Isqrt(SeqMin(array([n \in 1..Len(m) |->
            norm2(cartesian_den(<<v[1] + OutDen * m[n][1], v[2] + OutDen * m[n][2],
                                  v[3] + OutDen * m[n][3]>>, lattice, OutDen))])))

\* the atoms i and j of the stored crystal are closer than half the sum of
\* their covalent radii
too_close(i, j) ==
    2 * crystal_distance(i, j) < covalent_radius(sites[i]) + covalent_radius(sites[j])

\* C1: in every accepted crystal, every two distinct atoms are at least half
\* the sum of their covalent radii apart
C1_MinimumDistance ==
    Accepted => \A i \in 1..Len(sites), j \in 1..Len(sites) : i # j => ~ too_close(i, j)

\* the number of atoms of the species number i the crystal is asked to hold
asked(i) == IF dim = 1 THEN numIons0[i] ELSE numIons0[i] * (IF sg = 225 THEN 4 ELSE 1)

\* C2: an accepted crystal holds, for each species, exactly numIons0 times the
\* cell size atoms (3D, 2D), exactly numIons0 atoms (1D)
C2_AtomCounts ==
    Accepted =>
        /\ Len(coordinates) = Len(sites)
        /\ \A i \in 1..Len(species) : count(sites, species[i]) = asked(i)

\* an F-centred crystal (cell size 4) has been accepted
C2_Witness == Accepted /\ dim = 3 /\ sg = 225 /\ Len(sites) = 8

Infeasible == degrees = False

\* C5: on an infeasible input no lattice is sampled and no placement tried,
\* numattempts stays 0, valid is False, struct is None and the call has
\* returned; the lattice is sampled only after the compatibility check passed
C5_InfeasibleReturns ==
    /\ Infeasible =>
        /\ Rejected /\ struct = None /\ returned = None
        /\ numattempts = 0 /\ cycle1 = 0
        /\ cell_para = <<>> /\ cell_matrix = <<>> /\ lattice = <<>>
    /\ (pc \notin {"start", "done"} \/ cell_para # <<>> \/ numattempts > 0)
        => degrees \in {"True", "0"}

\* an infeasible input has been rejected
C5_Witness == Infeasible /\ Rejected /\ numIons = <<16, 16>>

\* the last call of the lattice sampler returned None
LatticeUnsampleable == Rejected /\ ~ Infeasible /\ cell_para = <<>>

\* the loop over cycle1 ran max1 times without a good structure
PlacementExhausted == Rejected /\ ~ Infeasible /\ cell_para # <<>> /\ cycle1 >= max1

\* C6 (original): the reason recorded with valid = False tells the infeasible
\* input, the unsampleable lattice and the exhausted placement apart
C6_Original ==
    /\ (Rejected /\ Infeasible) => struct = None
    /\ PlacementExhausted => struct = Msg2
    /\ LatticeUnsampleable => struct \notin {None, Msg2}

\* C6 (amended): with valid = False the infeasible input records and returns
\* None, and both the unsampleable lattice and the exhausted placement record
\* and return the one message Msg2
C6_TwoReasons ==
    /\ Rejected => (Infeasible \/ LatticeUnsampleable \/ PlacementExhausted)
    /\ (Rejected /\ Infeasible) => (struct = None /\ returned = None)
    /\ LatticeUnsampleable => (struct = Msg2 /\ returned = Msg2)
    /\ PlacementExhausted => (struct = Msg2 /\ returned = Msg2)

\* the sampler has returned None in a pass after the first, and the failure
\* is recorded
C6_Witness == LatticeUnsampleable /\ cycle1 > 0 /\ struct = Msg2

\* C7 (original): numattempts never exceeds max1 * max2 * max3
C7_Original == numattempts <= max1 * max2 * max3

\* C7 (amended): numattempts never exceeds max1 * max2 * max3 times the number
\* of species, the budgets being those in effect after the compatibility
\* check, and max1 * max2 * max3 for one species
C7_AttemptsPerSpecies == numattempts <= max1 * max2 * max3 * Len(species)

\* two species have used twice the budget of one
C7_Witness ==
    /\ Len(species) = 2
    /\ numattempts = 2 * max1 * max2 * max3
    /\ Returned

\* a terminal outcome of generate_crystal
Outcome ==
    \/ valid = "True" /\ struct = "Structure" /\ lattice # <<>> /\ sites # <<>>
    \/ valid = "False" /\ struct \in {None, Msg2} /\ lattice = <<>> /\ sites = <<>>

\* C8: every call of generate_crystal ends, in one of two outcomes, valid =
\* True with the crystal stored or valid = False with none, and takes no step
\* after it
C8_Terminates ==
    /\ <>Returned
    /\ [](Returned => Outcome)
    /\ [](pc # "raised")
    /\ [][~ Returned]_vars

\* a call has ended with the budget of the loops exhausted
C8_Witness == PlacementExhausted /\ Outcome /\ numattempts > 1

\* ---------------------------------------------------------------- a lattice no cell has

\* parameters the acceptance test of the samplers passes and no cell has: the
\* three angles are 143 degrees, and the radicand of para2matrix is negative
Unrealizable == {<<4000, 4000, 4000, Ang143, Ang143, Ang143>>}

\* parameters the acceptance test of the samplers passes, of a cell of 64 A^3
\* whatever the volume asked for
Missized == {<<4000, 4000, 4000, Ang90, Ang90, Ang90>>}

\* the pass of the loop over cycle1, the sampler able to return such parameters
SampleLatticeAny ==
    SampleLatticeFrom(sampled \cup {para \in Unrealizable \cup Missized :
                                        meets_requirements(para, minvector)})

NextPara ==
    \/ CheckCompatible
    \/ SampleLatticeAny
    \/ OuterExhausted
    \/ MiddleIter
    \/ MiddleExhausted
    \/ InnerIter
    \/ InnerExhausted
    \/ NextSpecies
    \/ AfterSpecies
    \/ Succeed

SpecPara == Init /\ [][NextPara]_vars

\* para2matrix was given parameters whose radicand is negative
DomainError == cell_para # <<>> /\ para2matrix_radicand(cell_para) < 0

RequestCancel ==
    /\ Running
    /\ cancel = <<>>
    /\ cancel' = <<cycle1>>
    /\ UNCHANGED <<pc, fields, numattempts, results, budgets, cycle1, cycle2, cycle3, sp,
                   numIon_added, cell_para, cell_matrix, accumulators>>

NextCancel == Next \/ RequestCancel

SpecCancel == Init /\ [][NextCancel]_vars

\* C10 (original): with the request made, the pass of the loop over cycle1
\* that begins next returns, and without a crystal
C10_Original ==
    [][(cancel # <<>> /\ pc = "outer") => (pc' = "done" /\ valid' # "True" /\ lattice' = <<>>)]_vars

\* C10 (amended): generate_crystal reads no request to stop: with the request
\* made, a pass of the loop over cycle1 samples its lattice and goes on to the
\* placement as without it, and the call ends with one of its own outcomes
C10_RequestIgnored ==
    /\ [][(cancel # <<>> /\ pc = "outer" /\ cycle1 < max1) =>
            /\ cell_para' \in sampled
            /\ cell_para' # <<>> => (pc' = "middle" /\ valid' = "unset")
            /\ cell_para' = <<>> => (pc' = "done" /\ returned' = Msg2)]_vars
    /\ [](Returned => (returned \in {None, Msg2} /\ Outcome))

\* the request was made in one pass of the loop over cycle1, and a crystal
\* accepted in a later one
C10_Witness == cancel # <<>> /\ Accepted /\ cancel[1] < cycle1

\* ---------------------------------------------------------------- tables of positions

\* the largest multiplicity, the most positions and the largest count of the
\* tables check_compatible is applied to
MaxMult == 3
MaxPositions == 3
MaxCount == 4

\* the Wyckoff position number k of a table, of m operations, with or without
\* a degree of freedom
position(m, free, k) ==
    array([i \in 1..m |-> Op(IF free THEN I3 ELSE Zero33, <<k, i, 0>>)])

\* the lists of positions, the multiplicities not increasing
Tables ==
    {array([k \in 1..n |-> position(ms[k], fs[k], k)]) :
        <<n, ms, fs>> \in
            {t \in UNION {{n} \X [1..n -> 1..MaxMult] \X [1..n -> BOOLEAN] : n \in 1..MaxPositions} :
                \A k \in 1..(t[1] - 1) : t[2][k] >= t[2][k + 1]}}
\* the lists of one or two counts
Counts == UNION {[1..n -> 1..MaxCount] : n \in 1..Len(<<"Na", "Cl">>)}

\* a crystal of the table ws and the counts counts_, about to call
\* generate_crystal
InitCompat ==
    /\ pc = "start"
    /\ \E ws \in Tables, counts_ \in Counts :
        /\ wyckoffs = ws
        /\ wyckoffs_organized = organize(ws)
        /\ numIons = counts_
        /\ numIons0 = counts_
        /\ species = SubSeq(<<"Na", "Cl">>, 1, Len(counts_))
    /\ dim = 3 /\ sg = 0 /\ number = 0 /\ factor = 1000
    /\ thickness = <<>> /\ area = <<>>
    /\ volume = 0
    /\ PBC = {1, 2, 3}
    /\ numattempts = 0
    /\ max1 = 1 /\ max2 = 1 /\ max3 = 1
    /\ Unset

\* the compatibility check is all that is run
NextCompat == CheckCompatible

SpecCompat == InitCompat /\ [][NextCompat]_vars

\* the sum of the multiplicities of the positions ks of the table ws
RECURSIVE multiplicities(_, _)
multiplicities(ws, ks) ==
    IF ks = {} THEN 0
    ELSE LET k == CHOOSE k \in ks : TRUE
         IN  Len(ws[k]) + multiplicities(ws, ks \ {k})

\* n is a sum of multiplicities of ms, each taken any number of times
RECURSIVE representable(_, _)
representable(n, ms) ==
    n = 0 \/ \E m \in ms : m <= n /\ representable(n - m, ms)

\* the counts can be assigned to the positions of ws not yet used: a position
\* without freedom at most once in all, a position with freedom any number of
\* times
RECURSIVE assignable(_, _, _)
assignable(ws, counts_, used) ==
    IF counts_ = <<>> THEN TRUE
    ELSE LET rigid == {k \in 1..Len(ws) : allclose_zero(ws[k][1].rotation_matrix)} \ used
             free == {Len(ws[k]) : k \in {k \in 1..Len(ws) : ~ allclose_zero(ws[k][1].rotation_matrix)}}
         IN  \E ks \in SUBSET rigid :
                /\ multiplicities(ws, ks) <= Head(counts_)
                /\ representable(Head(counts_) - multiplicities(ws, ks), free)
                /\ assignable(ws, Tail(counts_), used \cup ks)

\* C4: when check_compatible returns False, the counts cannot be assigned to
\* the positions of the table
C4_FalseIsInfeasible ==
    (pc # "start" /\ degrees = False) => ~ assignable(wyckoffs, numIons, {})

\* ---------------------------------------------------------------- the driver, further

\* the loops over cycle2 and cycle3 are running on the lattice cell_matrix
Placing == pc \in {"middle", "inner", "after_inner", "after_species", "good"}

\* the determinant of the lattice sampled last is more than 1 A^3 off the volume
VolumeOff ==
    /\ cell_para # <<>>
    /\ ~ DomainError
    /\ Abs(volume - det(para2matrix(cell_para))) > 1000

\* C11: the placement runs only on a lattice whose determinant is within 1 A^3
\* of the volume, an accepted crystal has such a lattice before the vacuum is
\* added, and a lattice that is not so leaves generate_crystal before any
\* placement on it
C11_VolumeChecked ==
    /\ Placing => Abs(volume - det(cell_matrix)) <= 1000
    /\ Accepted => ~ VolumeOff
    /\ VolumeOff <=> exception = "SystemExit"
    /\ VolumeOff => (pc = "raised" /\ valid = "unset" /\ struct = "unset")

\* a lattice off the volume was sampled in a pass after the first, and left
\* generate_crystal
C11_Witness == VolumeOff /\ pc = "raised" /\ cycle1 > 0 /\ numattempts > 0

\* ---------------------------------------------------------------- orbits of four points
\* generate_crystal on a group whose general position holds four points
\* (P2/m), with atoms of carbon: its covalent radius being below tol_m, a cell
\* can have an edge of 2 A, and the points of an orbit then come within the
\* tolerance of merge_coordinate.

CallsP2m ==
    {[dim |-> 3, sg |-> 10, number |-> 0, species |-> <<"C">>, numIons |-> <<4>>,
      thickness |-> <<>>, area |-> <<>>]}

\* the budgets max1, max2, max3 of these calls
BudgetsP2m == {<<1, 1, 2>>}

InitP2m ==
    /\ pc = "start"
    /\ \E c \in CallsP2m : Constructed(c)
    /\ \E b \in BudgetsP2m : max1 = b[1] /\ max2 = b[2] /\ max3 = b[3]
    /\ Unset

SpecP2m == InitP2m /\ [][Next]_vars

\* the tolerance of merge_coordinate for the species being placed
tol_placing == Max2(covalent_radius(species[sp]) \div 2, tol_m)

\* the results of merge_coordinate on the orbits the pass of the loop over
\* cycle3 can generate
merges ==
    {merge_coordinate(coords, cell_matrix, wyckoffs, tol_placing, PBC) :
        coords \in orbits(numIons[sp] - numIon_added) \ {NoWyckoff}}

\* the points appended to coordinates_tmp by a step
appended == SubSeq(coordinates_tmp', Len(coordinates_tmp) + 1, Len(coordinates_tmp'))

\* a step that appends points to coordinates_tmp
Appends ==
    /\ Len(coordinates_tmp') > Len(coordinates_tmp)
    /\ SubSeq(coordinates_tmp', 1, Len(coordinates_tmp)) = coordinates_tmp

\* the points are identified with a Wyckoff position
identified(points) == check_wyckoff_position(points, wyckoffs, PBC).index # NoIndex

\* the points are a sequence of orbits, each identified with a Wyckoff position
RECURSIVE orbits_identified(_)
orbits_identified(points) ==
    \/ points = <<>>
    \/ \E k \in 1..Len(points) :
        /\ identified(SubSeq(points, 1, k))
        /\ orbits_identified(SubSeq(points, k + 1, Len(points)))

\* C12: the points a step appends to coordinates_tmp are the points of a
\* result of merge_coordinate whose index is not False, and they are
\* identified with a Wyckoff position; a result of index False is never
\* appended; so the atoms accumulated, and those of the crystal returned, are
\* a sequence of orbits each identified with a Wyckoff position
C12_OrbitsIdentified ==
    /\ [][(pc = "inner" /\ coordinates_tmp' # coordinates_tmp) =>
            /\ Appends
            /\ \E m \in merges :
                /\ m.index # NoIndex
                /\ appended = filtered_coords(m.coor, PBC)
            /\ identified(appended)]_vars
    /\ [](Placing => orbits_identified(coordinates_tmp))
    /\ [](Accepted => orbits_identified(coordinates_total) /\ Len(coordinates) = Len(coordinates_total))

\* a crystal of one orbit of four points was returned, after a pass of the
\* loop over cycle3 in which nothing was appended: the accumulator being
\* empty, check_distance could not refuse the orbit, so that the merge of
\* that pass had the index False
C12_Witness ==
    /\ Accepted /\ sg = 10
    /\ cycle3 > 0
    /\ check_wyckoff_position(coordinates_total, wyckoffs, PBC).index = 0

\* C13: the step that calls check_compatible sets max1, max2 and max3 to 5
\* when the value is 0, whatever they were, and leaves them as passed when it
\* is True; in both cases the loop over cycle1 is entered, and no later step
\* changes them: a call whose degrees is 0 runs its loops within 5 passes and
\* never ends as the incompatible input does
C13_RigidBudgets ==
    /\ [][pc = "start" =>
            /\ degrees' = "0" =>
                (max1' = 5 /\ max2' = 5 /\ max3' = 5 /\ pc' = "outer" /\ valid' = "unset")
            /\ degrees' = "True" =>
                (max1' = max1 /\ max2' = max2 /\ max3' = max3 /\ pc' = "outer"
                 /\ valid' = "unset")]_vars
    /\ [][pc # "start" => (max1' = max1 /\ max2' = max2 /\ max3' = max3)]_vars
    /\ [](degrees = "0" =>
            /\ max1 = 5 /\ max2 = 5 /\ max3 = 5
            /\ cycle1 <= 5 /\ cycle2 <= 5 /\ cycle3 <= 5
            /\ struct # None)
    /\ [](pc = "inner" => cycle1 < max1 /\ cycle2 < max2 /\ cycle3 <= max3)

\* a crystal without freedom, placed in a pass of the loop over cycle3 beyond
\* the budgets passed
C13_Witness == degrees = "0" /\ Accepted /\ cycle3 > MaxBudget /\ max1 = 5

\* ---------------------------------------------------------------- check_compatible, further

\* the position has no freedom
rigid(wp) == allclose_zero(wp[1].rotation_matrix)

\* what the decomposition of one count takes from the position wp: a position
\* without freedom once, if it is not filled and fits; a position with freedom
\* as many times as it fits
taken(wp, d) ==
    IF rigid(wp)
    THEN IF wp \notin d.filled /\ d.remaining >= Len(wp)
         THEN [d EXCEPT !.remaining = @ - Len(wp), !.filled = @ \cup {wp}]
         ELSE d
    ELSE [d EXCEPT !.remaining = @ % Len(wp), !.free_used = @ \/ d.remaining >= Len(wp)]

RECURSIVE taken_all(_, _)
taken_all(ws, d) == IF ws = <<>> THEN d ELSE taken_all(Tail(ws), taken(Head(ws), d))

\* the decomposition of the counts over the table ws, the positions being
\* tried in the order of the table: ok tells that every count was a multiple
\* of the smallest multiplicity and was decomposed to the last atom
RECURSIVE decomposed(_, _, _)
decomposed(ws, counts_, d) ==
    IF counts_ = <<>> THEN [d EXCEPT !.ok = TRUE]
    ELSE IF Head(counts_) % Len(ws[Len(ws)]) > 0 THEN d
    ELSE LET after == taken_all(ws, [d EXCEPT !.remaining = Head(counts_)])
         IN  IF after.remaining # 0 THEN d ELSE decomposed(ws, Tail(counts_), after)

decomposition(ws, counts_) ==
    decomposed(ws, counts_, [remaining |-> 0, filled |-> {}, free_used |-> FALSE, ok |-> FALSE])

\* the counts can be assigned to the positions of ws not yet used, a position
\* without freedom at most once in all; with_freedom tells whether positions
\* with freedom are taken, and then one of them at least is
RECURSIVE assignable_as(_, _, _, _, _)
assignable_as(ws, counts_, used, with_freedom, freed) ==
    IF counts_ = <<>> THEN freed = with_freedom
    ELSE LET rigids == {k \in 1..Len(ws) : rigid(ws[k])} \ used
             free == {Len(ws[k]) : k \in {k \in 1..Len(ws) : ~ rigid(ws[k])}}
         IN  \E ks \in SUBSET rigids :
                LET rest == Head(counts_) - multiplicities(ws, ks)
                IN  /\ rest >= 0
                    /\ rest > 0 => (with_freedom /\ representable(rest, free))
                    /\ assignable_as(ws, Tail(counts_), used \cup ks, with_freedom,
                                     freed \/ rest > 0)

SamplerFails == pc = "outer" /\ cycle1 < max1 /\ cell_para' = <<>>

\* C15: the step in which the sampler returns None ends the call with valid
\* False and the message Msg2, whatever cycle1 is, without a pass of the
\* loops over cycle2 and cycle3; nothing follows the end of the call
C15_SamplerFailureEnds ==
    /\ [][SamplerFails =>
            /\ pc' = "done" /\ valid' = "False" /\ struct' = Msg2 /\ returned' = Msg2
            /\ numattempts' = numattempts
            /\ cycle1' = cycle1 /\ cycle2' = cycle2 /\ cycle3' = cycle3
            /\ UNCHANGED accumulators]_vars
    /\ [][pc = "done" => UNCHANGED vars]_vars
    /\ []((pc = "done" /\ degrees # False /\ cell_para = <<>>) =>
            (valid = "False" /\ cycle1 < max1))

\* the sampler returned None in a pass of the loop over cycle1 that was not
\* the last one max1 allowed
C15_Witness ==
    /\ pc = "done" /\ degrees # False /\ cell_para = <<>> /\ valid = "False"
    /\ cycle1 + 1 < max1

\* the lattice of the call is left as it is, but for the vacuum added to the
\* crystal returned
SameLattice == cell_para' = cell_para /\ (pc # "good" => cell_matrix' = cell_matrix)

\* C16: a lattice is sampled only in a pass of the loop over cycle1, of which
\* there are at most max1, and a structure is attempted only in a pass of the
\* loop over cycle2, of which a lattice has at most max2; a failed attempt
\* counts one pass and is followed, while cycle2 is below max2, by another
\* attempt on the same lattice; the loop over cycle1 goes to its next pass,
\* and a new lattice, only when max2 attempts have failed
C16_LoopBudgets ==
    /\ [](cycle1 <= max1 /\ cycle2 <= max2)
    /\ [][~ SameLattice => (pc = "outer" /\ cycle1 < max1)]_vars
    /\ [][(pc = "middle" /\ cycle2 < max2) =>
            (pc' = "inner" /\ SameLattice /\ cycle2' = cycle2 /\ cycle1' = cycle1)]_vars
    /\ [][(pc = "after_species" /\ numIon_added # numIons[sp]) =>
            (pc' = "middle" /\ cycle2' = cycle2 + 1 /\ SameLattice /\ cycle1' = cycle1)]_vars
    /\ [][cycle1' # cycle1 =>
            (cycle1' = cycle1 + 1 /\ cycle2 = max2 /\ ~ good_structure /\ pc' = "outer")]_vars
    /\ [][(pc # "start" /\ pc' = "outer") => (cycle2 = max2 /\ cycle1' = cycle1 + 1)]_vars

\* a second lattice is tried, after two attempts on the first
C16_Witness ==
    /\ Placing /\ cycle1 = 1 /\ max1 > 1 /\ max2 > 1
    /\ numattempts >= max2

\* the atoms asked for the species before the species k
asked_before(k) == SeqSum(SubSeq(numIons, 1, k - 1))

\* C17: a pass of the loop over cycle2 begins with coordinates_tmp and
\* sites_tmp empty, the totals being empty between the passes; during a pass
\* the atoms accumulated are those of the species completed in it and those
\* added for the species being placed, and the crystal returned holds the
\* atoms of its last pass only
C17_AttemptStartsEmpty ==
    /\ [][(pc = "middle" /\ pc' = "inner") =>
            (coordinates_tmp' = <<>> /\ sites_tmp' = <<>>
             /\ coordinates_total' = <<>> /\ sites_total' = <<>>)]_vars
    /\ [](pc = "middle" => (coordinates_total = <<>> /\ sites_total = <<>>))
    /\ [](pc \in {"inner", "after_inner", "after_species"} =>
            /\ Len(coordinates_tmp) = asked_before(sp) + numIon_added
            /\ Len(sites_tmp) = Len(coordinates_tmp)
            /\ \A i \in 1..Len(sites_tmp) :
                \E k \in 1..sp : /\ sites_tmp[i] = species[k]
                                  /\ asked_before(k) < i
                                  /\ i <= asked_before(k) + numIons[k])
    /\ [](Accepted =>
            /\ coordinates_total = coordinates_tmp /\ sites = sites_tmp
            /\ Len(coordinates) = asked_before(Len(numIons) + 1))

\* an attempt has failed with atoms placed, which coordinates_tmp still
\* holds, and the loop over cycle2 has a pass left
C17_Witness ==
    /\ pc = "middle" /\ cycle2 > 0 /\ cycle2 < max2
    /\ coordinates_tmp # <<>> /\ coordinates_total = <<>>

\* the atoms the species being placed still needs
remaining == numIons[sp] - numIon_added

\* C18: numIon_added is never negative and never above the count of the
\* species being placed; in a pass of the loop over cycle3 the position
\* chosen has at most as many operations as atoms are still needed, and the
\* merge returns at most as many points as it was given
C18_AddedWithinTarget ==
    /\ numIon_added >= 0
    /\ sp = 0 => numIon_added = 0
    /\ sp > 0 => numIon_added <= numIons[sp]
    /\ (pc = "inner" /\ cycle3 < max3) =>
        /\ \A high \in BOOLEAN : \A ops \in choose_wyckoff(wyckoffs_organized, remaining, high) :
                ops # NoWyckoff => Len(ops) <= remaining
        /\ \A coords \in orbits(remaining) \ {NoWyckoff} :
                /\ Len(coords) <= remaining
                /\ Len(merge_coordinate(coords, cell_matrix, wyckoffs, tol_placing, PBC).coor)
                       <= Len(coords)

\* atoms were added for the species, and fewer are still needed than the
\* general position holds
C18_Witness ==
    /\ pc = "inner" /\ cycle3 < max3
    /\ numIon_added > 0
    /\ remaining > 0 /\ remaining < Len(wyckoffs[1])

\* ---------------------------------------------------------------- the distance check

\* the tolerance of a species: max(0.5 * covalent_radius, tol_m)
tau(specie) == Max2(covalent_radius(specie) \div 2, tol_m)

\* some atom placed and some point of coords are closer than the sum of the
\* tolerances of their species, the points being of the species specie
below_tau(coords, specie) ==
    LET d == distance_matrix(coordinates_tmp, coords, cell_matrix, PBC)
    IN  \E i \in 1..Len(coordinates_tmp), j \in 1..Len(coords) :
            d[i][j] < tau(sites_tmp[i]) + tau(specie)

\* the check of the driver refuses the points coords of the species specie
refused(coords, specie) ==
    ~ check_distance(coordinates_tmp, coords, sites_tmp,
                     [i \in 1..Len(coords) |-> specie], cell_matrix, PBC)

\* some atom placed and some point of coords are closer than the sum of the
\* covalent radii of their species
below_radii(coords, specie) ==
    LET d == distance_matrix(coordinates_tmp, coords, cell_matrix, PBC)
    IN  \E i \in 1..Len(coordinates_tmp), j \in 1..Len(coords) :
            d[i][j] < covalent_radius(sites_tmp[i]) + covalent_radius(specie)

MaxPoints == 2

\* the points of the sets, in 1/Den
DistancePoints == {<<0, 0, 0>>, <<1, 1, 1>>, <<2, 2, 2>>}

\* the lists of up to MaxPoints elements of the set S
Lists(S) == UNION {[1..n -> S] : n \in 0..MaxPoints}

InitDistance ==
    /\ pc = "start"
    /\ coordinates_tmp \in Lists(DistancePoints)
    /\ coordinates_total \in Lists(DistancePoints)
    /\ sites_tmp \in [1..Len(coordinates_tmp) -> {"Na", "C"}]
    /\ sites_total \in [1..Len(coordinates_total) -> {"Na", "C"}]
    /\ cell_para \in {<<e, e, e, Ang90, Ang90, Ang90>> : e \in {4000, 8000}}
    /\ cell_matrix = para2matrix(cell_para)
    /\ PBC = {1, 2, 3}
    /\ dim = 3 /\ sg = 0 /\ number = 0 /\ factor = 1000
    /\ species = <<"Na", "C">> /\ numIons0 = <<MaxPoints, MaxPoints>> /\ numIons = numIons0
    /\ thickness = <<>> /\ area = <<>> /\ volume = 0
    /\ wyckoffs = <<>> /\ wyckoffs_organized = <<>>
    /\ numattempts = 0
    /\ max1 = 1 /\ max2 = 1 /\ max3 = 1
    /\ struct = "unset" /\ valid = "unset" /\ lattice = <<>> /\ coordinates = <<>>
    /\ sites = <<>> /\ returned = "unset" /\ exception = "None"
    /\ degrees = "unset" /\ minvector = 0
    /\ cycle1 = 0 /\ cycle2 = 0 /\ cycle3 = 0 /\ sp = 0 /\ numIon_added = 0
    /\ good_structure = FALSE
    /\ cancel = <<>>

\* the call check_distance(coord1, coord2, tols1, tols2, lattice, PBC)
CheckDistance ==
    /\ pc = "start"
    /\ returned' = (IF check_distance(coordinates_tmp, coordinates_total, sites_tmp, sites_total,
                                      cell_matrix, PBC)
                    THEN "True" ELSE "False")
    /\ pc' = "done"
    /\ UNCHANGED <<fields, numattempts, struct, valid, lattice, coordinates, sites, exception,
                   budgets, cycle1, cycle2, cycle3, sp, numIon_added, cell_para, cell_matrix,
                   accumulators, cancel>>

NextDistance == CheckDistance

SpecDistance == InitDistance /\ [][NextDistance]_vars

\* some point of coord1 and some point of coord2 are closer than the sum of
\* their tolerances
pair_too_close ==
    LET d == distance_matrix(coordinates_tmp, coordinates_total, cell_matrix, PBC)
    IN  \E i \in 1..Len(coordinates_tmp), j \in 1..Len(coordinates_total) :
            d[i][j] < covalent_radius(sites_tmp[i]) + covalent_radius(sites_total[j])

\* C20: check_distance returns False exactly when some pair of a point of
\* coord1 and a point of coord2 is closer than the sum of the tolerances of
\* the two points, whatever the sizes of the sets
C20_FalseIffPairTooClose ==
    pc = "done" => (returned = "False" <=> pair_too_close)

\* ---------------------------------------------------------------- merge_coordinate alone
\* merge_coordinate(coor, lattice, wyckoffs, w_symm_all, tol, PBC) run pass by
\* pass of its loop: coordinates holds the points it was called with,
\* coordinates_tmp the points coor of the pass, cell_matrix the lattice,
\* numattempts the passes made; at the return coordinates_total holds the
\* points returned and valid tells whether the index returned is not False.
\* The tolerance is that of carbon.

\* the points merge_coordinate is called with are up to MaxOrbit
MaxOrbit == 4

\* the fractional coordinates of the points, in 1/Den
MergePoints == {<<0, 0, 0>>, <<1, 0, 0>>, <<3, 0, 0>>, <<2, 2, 2>>}

\* the lists of one to MaxOrbit elements of the set S
Orbits(S) == UNION {[1..n -> S] : n \in 1..MaxOrbit}

InitMerge ==
    /\ pc = "merge"
    /\ coordinates \in Orbits(MergePoints)
    /\ coordinates_tmp = coordinates
    /\ cell_para \in {<<4000, 4000, 4000, Ang90, Ang90, Ang90>>,
                       <<2000, 4000, 8000, Ang90, Ang90, Ang90>>}
    /\ cell_matrix = para2matrix(cell_para)
    /\ wyckoffs \in {wyckoffs_P1bar, wyckoffs_P2m}
    /\ wyckoffs_organized = organize(wyckoffs)
    /\ PBC = {1, 2, 3}
    /\ dim = 3 /\ sg = 0 /\ number = 0 /\ factor = 1000
    /\ species = <<"C">> /\ sp = 1
    /\ numIons0 = <<Len(coordinates)>> /\ numIons = numIons0
    /\ thickness = <<>> /\ area = <<>> /\ volume = 0
    /\ numattempts = 0
    /\ max1 = 1 /\ max2 = 1 /\ max3 = 1
    /\ struct = "unset" /\ valid = "unset" /\ lattice = <<>>
    /\ sites = <<>> /\ returned = "unset" /\ exception = "None"
    /\ degrees = "unset" /\ minvector = 0
    /\ cycle1 = 0 /\ cycle2 = 0 /\ cycle3 = 0 /\ numIon_added = 0
    /\ coordinates_total = <<>> /\ sites_total = <<>> /\ sites_tmp = <<>>
    /\ good_structure = FALSE
    /\ cancel = <<>>

\* return coor, index, point
MergeReturns(coor, index) ==
    /\ coordinates_total' = coor
    /\ valid' = (IF index = NoIndex THEN "False" ELSE "True")
    /\ pc' = "done"
    /\ UNCHANGED coordinates_tmp

\* one pass of the loop of merge_coordinate
MergeRound ==
    /\ pc = "merge"
    /\ numattempts' = numattempts + 1
    /\ LET found == find_short_dist(coordinates_tmp, cell_matrix, tol_placing, PBC)
       IN  IF Len(found.pairs) > 0
           THEN IF Len(coordinates_tmp) > Len(wyckoffs[Len(wyckoffs)])
                THEN LET merged == groups_center(coordinates_tmp, cell_matrix, PBC,
                                                 connected_components(found.graph))
                     IN  IF check_wyckoff_position(merged, wyckoffs, PBC).index = NoIndex
                         THEN MergeReturns(coordinates_tmp, NoIndex)
                         ELSE /\ coordinates_tmp' = merged
                              /\ UNCHANGED <<coordinates_total, valid, pc>>
                ELSE MergeReturns(coordinates_tmp, NoIndex)
           ELSE MergeReturns(coordinates_tmp,
                             check_wyckoff_position(coordinates_tmp, wyckoffs, PBC).index)
    /\ UNCHANGED <<fields, struct, lattice, coordinates, sites, returned, exception,
                   budgets, cycle1, cycle2, cycle3, sp, numIon_added, cell_para, cell_matrix,
                   sites_total, sites_tmp, good_structure, cancel>>

NextMerge == MergeRound

SpecMerge == InitMerge /\ [][NextMerge]_vars

\* the distance of the points i and j of the list coor
between(coor, i, j) == distance_matrix(coor, coor, cell_matrix, PBC)[i][j]

\* C21: the points merge_coordinate returns with an index that is not False
\* are farther apart than the tolerance, two by two
C21_ReturnedApart ==
    (pc = "done" /\ valid = "True") =>
        \A i \in 1..Len(coordinates_total), j \in 1..Len(coordinates_total) :
            i # j => between(coordinates_total, i, j) > tol_placing

\* ---- the graph of find_short_dist

\* the graph find_short_dist builds on the points of the pass
graph_found == find_short_dist(coordinates_tmp, cell_matrix, tol_placing, PBC).graph

\* the smallest distance between two distinct points of coor
d_min(coor) ==
    SetMin({between(coor, ij[1], ij[2]) :
            ij \in {p \in (1..Len(coor)) \X (1..Len(coor)) : p[1] # p[2]}})

\* C22: the graph of find_short_dist joins two distinct points exactly when
\* their distance is within the tolerance and within 1e-3 of the smallest
\* distance between two distinct points
C22_EdgesOfShortest ==
    pc = "merge" =>
        \A i \in 1..Len(coordinates_tmp) : \A j \in (1..Len(coordinates_tmp)) \ {i} :
            j \in Range(graph_found[i])
                <=> (between(coordinates_tmp, i, j) <= tol_placing
                     /\ between(coordinates_tmp, i, j) <= d_min(coordinates_tmp) + 1)

\* ---- the passes of merge_coordinate

\* a pass that does not return
Continues == pc = "merge" /\ pc' = "merge"

\* C23: a pass of merge_coordinate returns or leaves fewer points than it
\* found, and the passes made are no more than the points it was called with
C23_PassesShrink ==
    /\ [][Continues => Len(coordinates_tmp') < Len(coordinates_tmp)]_vars
    /\ [](numattempts <= Len(coordinates))

\* merge_coordinate has returned in its second pass, after one that merged
C23_Witness == pc = "done" /\ numattempts = 2 /\ Len(coordinates_total) < Len(coordinates)

\* ---- connected_components alone
\*
\* The loop of connected_components, a pass at a time.  sites_tmp is graph,
\* coordinates_tmp is unseen, sites_total is sets, cycle1 is i, and sites is
\* the list that `def add_neighbors(el, seen=[])` made the default of seen
\* when connected_components was entered.

\* the graphs have up to MaxNodes indices
MaxNodes == 4

\* the neighbours of i among 1..n under the edges E, in rising or falling order
neighbours(n, E, i, rising) ==
    LET js == SelectSeq(array([j \in 1..n |-> j]), LAMBDA j : {i, j} \in E)
    IN  IF rising THEN js ELSE array([m \in 1..Len(js) |-> js[Len(js) + 1 - m]])

\* the undirected graphs on 1..n as lists of neighbours
Graphs(n) ==
    {array([i \in 1..n |-> neighbours(n, E, i, rising)]) :
        E \in SUBSET {{p[1], p[2]} : p \in {q \in (1..n) \X (1..n) : q[1] < q[2]}},
        rising \in BOOLEAN}

InitGraph ==
    /\ pc = "components"
    /\ sites_tmp \in UNION {Graphs(n) : n \in 1..MaxNodes}
    /\ coordinates_tmp = array([i \in 1..Len(sites_tmp) |-> i])
    /\ sites_total = <<>>
    /\ cycle1 = 0
    /\ sites = <<>>
    /\ dim = 3 /\ sg = 0 /\ number = 0 /\ factor = 1000
    /\ species = <<>> /\ numIons0 = <<>> /\ numIons = numIons0
    /\ thickness = <<>> /\ area = <<>> /\ volume = 0
    /\ wyckoffs = <<>> /\ wyckoffs_organized = <<>> /\ PBC = {1, 2, 3}
    /\ numattempts = 0
    /\ max1 = 1 /\ max2 = 1 /\ max3 = 1
    /\ struct = "unset" /\ valid = "unset" /\ lattice = <<>> /\ coordinates = <<>>
    /\ returned = "unset" /\ exception = "None"
    /\ degrees = "unset" /\ minvector = 0
    /\ cycle2 = 0 /\ cycle3 = 0 /\ sp = 0 /\ numIon_added = 0
    /\ cell_para = <<>> /\ cell_matrix = <<>>
    /\ coordinates_total = <<>>
    /\ good_structure = FALSE
    /\ cancel = <<>>

\* add_neighbors(el) with `seen.append(el)` for `seen = [el]`: the default
\* list itself is appended to, and is what the next call starts from
add_neighbors_appending(graph, el, default) ==
    LET seen == visit(graph, graph[el], IF default = <<>> THEN Append(default, el) ELSE default)
    IN  [seen |-> seen, default |-> seen]

\* add_neighbors(el) when default is the default of seen: the list returned
\* and the default left behind.  A default that is not empty is the list
\* the call appends to.
add_neighbors_call(graph, el, default) ==
    IF default = <<>>
    THEN [seen |-> visit(graph, graph[el], <<el>>), default |-> default]
    ELSE LET seen == visit(graph, graph[el], default)
         IN  [seen |-> seen, default |-> seen]

\* a pass of `while (unseen != [])`, and the return when it was the last
ComponentsPass ==
    /\ pc = "components"
    /\ coordinates_tmp # <<>>
    /\ LET x == coordinates_tmp[Len(coordinates_tmp)]
           call == add_neighbors_call(sites_tmp, x, sites)
           left == SelectSeq(SubSeq(coordinates_tmp, 1, Len(coordinates_tmp) - 1),
                             LAMBDA y : y \notin Range(call.seen))
       IN  /\ sites_total' = Append(sites_total, call.seen)
           /\ sites' = call.default
           /\ coordinates_tmp' = left
           /\ cycle1' = cycle1 + 1
           /\ pc' = (IF left = <<>> THEN "done" ELSE "components")
    /\ UNCHANGED <<fields, numattempts, struct, valid, lattice, coordinates, returned, exception,
                   budgets, cycle2, cycle3, sp, numIon_added, cell_para, cell_matrix,
                   coordinates_total, sites_tmp, good_structure, cancel>>

NextGraph == ComponentsPass

SpecGraph == InitGraph /\ [][NextGraph]_vars

\* the indices a path of edges joins to one of S
RECURSIVE joined_to(_, _)
joined_to(graph, S) ==
    LET T == S \cup UNION {Range(graph[x]) : x \in S}
    IN  IF T = S THEN S ELSE joined_to(graph, T)

\* the components, among sets, that hold the index i
holding(sets, i) == {k \in 1..Len(sets) : i \in Range(sets[k])}

\* C24: connected_components returns a partition of the indices of a symmetric
\* graph in which two indices share a component exactly when a path joins
\* them, and no call of add_neighbors receives what an earlier one found
C24_ComponentsPartition ==
    /\ pc = "components" => sites = <<>>
    /\ pc = "done" =>
          /\ sites = <<>>
          /\ sites_total = connected_components(sites_tmp)
          /\ \A k \in 1..Len(sites_total) :
                Len(sites_total[k]) = Cardinality(Range(sites_total[k]))
          /\ \A i \in 1..Len(sites_tmp) : Cardinality(holding(sites_total, i)) = 1
          /\ \A i \in 1..Len(sites_tmp) : \A j \in 1..Len(sites_tmp) :
                (holding(sites_total, i) = holding(sites_total, j))
                    <=> j \in joined_to(sites_tmp, {i})

\* a graph of four indices returned as two components, one of them a path of
\* three indices
C24_Witness ==
    /\ pc = "done" /\ Len(sites_tmp) = 4 /\ Len(sites_total) = 2
    /\ \E k \in 1..2 : Len(sites_total[k]) = 3
    /\ \E i \in 1..4 : Len(sites_tmp[i]) = 2
    /\ \A i \in 1..4 : Len(sites_tmp[i]) < 3

\* ---- choose_wyckoff alone
\*
\* wyckoffs_organized is the table, remaining the number asked for; at return
\* pc tells the branch rand_u took and returned is the value.

InitChoose ==
    /\ pc = "choose"
    /\ wyckoffs \in Tables \cup {wyckoffs_P1bar, wyckoffs_P2m}
    /\ wyckoffs_organized = organize(wyckoffs)
    /\ numIons \in {<<n>> : n \in 1..MaxCount}
    /\ numIons0 = numIons
    /\ species = <<"C">>
    /\ sp = 1 /\ numIon_added = 0
    /\ dim = 3 /\ sg = 0 /\ number = 0 /\ factor = 1000
    /\ thickness = <<>> /\ area = <<>> /\ volume = 0
    /\ PBC = {1, 2, 3}
    /\ numattempts = 0
    /\ max1 = 1 /\ max2 = 1 /\ max3 = 1
    /\ struct = "unset" /\ valid = "unset" /\ lattice = <<>> /\ coordinates = <<>>
    /\ sites = <<>> /\ returned = "unset" /\ exception = "None"
    /\ degrees = "unset" /\ minvector = 0
    /\ cycle1 = 0 /\ cycle2 = 0 /\ cycle3 = 0
    /\ cell_para = <<>> /\ cell_matrix = <<>>
    /\ coordinates_total = <<>> /\ sites_total = <<>>
    /\ coordinates_tmp = <<>> /\ sites_tmp = <<>> /\ good_structure = FALSE
    /\ cancel = <<>>

\* the call choose_wyckoff(wyckoffs_organized, numIon - numIon_added)
ChooseWyckoff ==
    /\ pc = "choose"
    /\ \E high \in BOOLEAN :
        /\ returned' \in choose_wyckoff(wyckoffs_organized, remaining, high)
        /\ pc' = (IF high THEN "high" ELSE "among")
    /\ UNCHANGED <<fields, numattempts, struct, valid, lattice, coordinates, sites, exception,
                   budgets, cycle1, cycle2, cycle3, sp, numIon_added, cell_para, cell_matrix,
                   accumulators, cancel>>

NextChoose == ChooseWyckoff

SpecChoose == InitChoose /\ [][NextChoose]_vars

\* the multiplicities of the table that are within the number asked for
fitting == {m \in {Len(wyckoffs[k]) : k \in 1..Len(wyckoffs)} : m <= remaining}

\* C25: choose_wyckoff returns False exactly when no position has a
\* multiplicity within number, and otherwise a position of the table with a
\* multiplicity within number, the largest such when it goes from high to low
C25_ChosenFits ==
    pc \in {"high", "among"} =>
        /\ (returned = NoWyckoff) <=> (fitting = {})
        /\ returned # NoWyckoff =>
              /\ returned \in Range(wyckoffs)
              /\ Len(returned) <= remaining
              /\ pc = "high" => \A m \in fitting : m <= Len(returned)

\* going from high to low, a position was returned that is not of the largest
\* multiplicity of the table, and smaller ones fit too
C25_Witness ==
    /\ pc = "high" /\ returned # NoWyckoff
    /\ Len(returned) < Len(wyckoffs[1])
    /\ \E m \in fitting : m < Len(returned)

\* ---- cellsize alone
\*
\* sites is the symbol sg_symbol_from_int_number gave, a letter of centring
\* and the symbol of a point group; at return, returned is the value of
\* cellsize.

\* the letters of centring
Letters == {"P", "A", "B", "C", "I", "R", "F"}

\* symbols of point groups
PointGroups ==
    { <<"1">>, <<"-", "1">>, <<"2">>, <<"m">>, <<"2", "/", "m">>, <<"2", "2", "2">>,
      <<"m", "m", "2">>, <<"m", "m", "m">>, <<"4">>, <<"3">>, <<"m", "-", "3", "m">> }

InitCellsize ==
    /\ pc = "cellsize"
    /\ sites \in {<<letter>> \o group : letter \in Letters, group \in PointGroups}
    /\ returned = "unset"
    /\ dim = 3 /\ sg = 0 /\ number = 0 /\ factor = 1000
    /\ species = <<>> /\ numIons0 = <<>> /\ numIons = numIons0
    /\ thickness = <<>> /\ area = <<>> /\ volume = 0
    /\ wyckoffs = <<>> /\ wyckoffs_organized = <<>> /\ PBC = {1, 2, 3}
    /\ numattempts = 0
    /\ max1 = 1 /\ max2 = 1 /\ max3 = 1
    /\ struct = "unset" /\ valid = "unset" /\ lattice = <<>> /\ coordinates = <<>>
    /\ exception = "None"
    /\ degrees = "unset" /\ minvector = 0
    /\ cycle1 = 0 /\ cycle2 = 0 /\ cycle3 = 0 /\ sp = 0 /\ numIon_added = 0
    /\ cell_para = <<>> /\ cell_matrix = <<>>
    /\ coordinates_total = <<>> /\ sites_total = <<>>
    /\ coordinates_tmp = <<>> /\ sites_tmp = <<>> /\ good_structure = FALSE
    /\ cancel = <<>>

\* the call cellsize(sg), once the symbol of sg is known
CellsizeReturns ==
    /\ pc = "cellsize"
    /\ returned' = cellsize_of(sites)
    /\ pc' = "done"
    /\ UNCHANGED <<fields, numattempts, struct, valid, lattice, coordinates, sites, exception,
                   budgets, cycle1, cycle2, cycle3, sp, numIon_added, cell_para, cell_matrix,
                   accumulators, cancel>>

NextCellsize == CellsizeReturns

SpecCellsize == InitCellsize /\ [][NextCellsize]_vars

\* the multiplier of a letter of centring
multiplier(letter) ==
    CASE letter = "P" -> 1
      [] letter \in {"A", "B", "C", "I"} -> 2
      [] letter = "R" -> 3
      [] letter = "F" -> 4

Volumes == {55424, 64000, 102400, 128000}

\* the calls of the samplers: generate_lattice(sg, ...),
\* generate_lattice_2D(number, ..., thickness, ...) and
\* generate_lattice_1D(number, ..., area, ...)
SamplerCalls ==
    {[dim |-> 3, sg |-> g, number |-> 0, thickness |-> <<>>, area |-> <<>>] :
        g \in {2, 10, 47, 123, 191, 225}}
    \cup {[dim |-> 2, sg |-> 0, number |-> 2, thickness |-> t, area |-> <<>>] :
            t \in {<<>>, <<4000>>}}
    \cup {[dim |-> 1, sg |-> 0, number |-> n, thickness |-> <<>>, area |-> a] :
            n \in {2, 5}, a \in {<<>>, <<1600>>}}

InitSampler ==
    /\ pc = "sampling"
    /\ \E c \in SamplerCalls :
        /\ dim = c.dim /\ sg = c.sg /\ number = c.number
        /\ thickness = c.thickness /\ area = c.area
    /\ volume \in Volumes
    /\ minvector \in {Max2(2 * covalent_radius(specie), tol_m) : specie \in Species}
    /\ cycle1 = 0 /\ lattice = <<>> /\ cell_para = <<>>
    /\ factor = 1000
    /\ species = <<>> /\ numIons0 = <<>> /\ numIons = numIons0
    /\ wyckoffs = <<>> /\ wyckoffs_organized = <<>> /\ PBC = {1, 2, 3}
    /\ numattempts = 0
    /\ max1 = 1 /\ max2 = 1 /\ max3 = 1
    /\ struct = "unset" /\ valid = "unset" /\ coordinates = <<>>
    /\ sites = <<>> /\ returned = "unset" /\ exception = "None"
    /\ degrees = "unset"
    /\ cycle2 = 0 /\ cycle3 = 0 /\ sp = 0 /\ numIon_added = 0
    /\ cell_matrix = <<>>
    /\ coordinates_total = <<>> /\ sites_total = <<>>
    /\ coordinates_tmp = <<>> /\ sites_tmp = <<>> /\ good_structure = FALSE
    /\ cancel = <<>>

\* the parameters a pass of the sampler of the crystal's dimension can draw
drawn ==
    CASE dim = 3 -> generate_lattice_drawn(sg, volume)
      [] dim = 2 -> generate_lattice_2D_drawn(number, volume, thickness)
      [] dim = 1 -> generate_lattice_1D_drawn(number, volume, area)

\* a pass that returns what it drew, whatever it is
SamplerPass_unchecked ==
    /\ pc = "sampling"
    /\ cycle1 < maxattempts
    /\ \E para \in drawn :
        /\ lattice' = para
        /\ cycle1' = cycle1 + 1
        /\ cell_para' = para
        /\ pc' = "done"
    /\ UNCHANGED <<fields, numattempts, struct, valid, coordinates, sites, returned, exception,
                   budgets, cycle2, cycle3, sp, numIon_added, cell_matrix, accumulators, cancel>>

\* a pass of the loop: the parameters are drawn and returned if they meet the
\* requirements; the pass that ends range(maxattempts) without a return is
\* followed by the return of None
SamplerPass ==
    /\ pc = "sampling"
    /\ cycle1 < maxattempts
    /\ \E para \in drawn :
        /\ lattice' = para
        /\ cycle1' = cycle1 + 1
        /\ IF meets_requirements(para, minvector)
           THEN cell_para' = para /\ pc' = "done"
           ELSE /\ cell_para' = <<>>
                /\ pc' = (IF cycle1 + 1 < maxattempts THEN "sampling" ELSE "done")
    /\ UNCHANGED <<fields, numattempts, struct, valid, coordinates, sites, returned, exception,
                   budgets, cycle2, cycle3, sp, numIon_added, cell_matrix, accumulators, cancel>>

NextSampler == SamplerPass

SpecSampler == InitSampler /\ [][NextSampler]_vars

\* the edges are not below minvec, the angles lie between minangle = pi/6 and
\* pi - minangle, no edge is more than max_ratio = 10 times another, and the
\* least of a cos(max(beta, gamma)), b cos(max(alpha, gamma)) and
\* c cos(max(alpha, beta)) is below minvec
within_invariants(para, minvec) ==
    LET edges == {para[1], para[2], para[3]}
        angles == {para[4], para[5], para[6]}
    IN  /\ \A e \in edges : e >= minvec
        /\ \A u \in angles : 4 * u.c * u.c < 75
        /\ \A e \in edges : \A f \in edges : e <= 10 * f
        /\ \/ para[1] * Min2(para[5].c, para[6].c) < 5 * minvec
           \/ para[2] * Min2(para[4].c, para[6].c) < 5 * minvec
           \/ para[3] * Min2(para[4].c, para[5].c) < 5 * minvec

\* C27: a sampler makes no more than maxattempts passes, returns the first
\* parameters drawn that meet the requirements, and returns None exactly when
\* the parameters of all maxattempts passes failed them
C27_FirstAccepted ==
    /\ pc \in {"sampling", "done"} => cycle1 <= maxattempts
    /\ (pc = "sampling" /\ cycle1 > 0) => ~ meets_requirements(lattice, minvector)
    /\ (pc = "done" /\ cell_para # <<>>) =>
          /\ cell_para = lattice
          /\ meets_requirements(cell_para, minvector)
          /\ within_invariants(cell_para, minvector)
    /\ (pc = "done" /\ cell_para = <<>>) =>
          /\ cycle1 = maxattempts
          /\ ~ meets_requirements(lattice, minvector)
    /\ pc = "done" => cell_para \in sampled

\* parameters were returned in the last pass, after maxattempts - 1 that failed
C27_Witness == pc = "done" /\ cell_para # <<>> /\ cycle1 = maxattempts

\* ---- the crystal systems

\* generate_lattice has returned the parameters cell_para
Sampled3D == pc = "done" /\ dim = 3 /\ cell_para # <<>>

\* C28: the parameters generate_lattice returns obey the constraints of the
\* crystal system of the group: right angles alpha and gamma from group 3 on,
\* three right angles for 16 to 142 and 195 to 230, gamma = 2*pi/3 for 143 to
\* 194, a = b for 75 to 194, and a = b = c for 195 to 230
C28_CrystalSystem ==
    Sampled3D =>
        LET a == cell_para[1]
            b == cell_para[2]
            c == cell_para[3]
            alpha == cell_para[4]
            beta == cell_para[5]
            gamma == cell_para[6]
        IN  /\ (sg >= 3 /\ sg <= 15) => (alpha = Ang90 /\ gamma = Ang90)
            /\ ((sg >= 16 /\ sg <= 142) \/ (sg >= 195 /\ sg <= 230)) =>
                  (alpha = Ang90 /\ beta = Ang90 /\ gamma = Ang90)
            /\ (sg >= 75 /\ sg <= 194) => a = b
            /\ (sg >= 143 /\ sg <= 194) => (alpha = Ang90 /\ beta = Ang90 /\ gamma = Ang120)
            /\ (sg >= 195 /\ sg <= 230) => (a = b /\ b = c)

\* parameters were returned for the hexagonal group 191, with c other than a
C28_Witness == Sampled3D /\ sg = 191 /\ cell_para[6] = Ang120 /\ cell_para[3] # cell_para[1]

\* ---- the monoclinic Rod groups of unique axis a

\* generate_lattice_1D has returned the parameters cell_para for a Rod group
\* from 3 to 7
SampledRod == pc = "done" /\ dim = 1 /\ number >= 3 /\ number <= 7 /\ cell_para # <<>>

\* C29: the parameters generate_lattice_1D returns for the Rod groups 3 to 7
\* have alpha = pi/2, and beta and gamma as well: the angle drawn is assigned to
\* alhpa, which nothing reads
C29_RodAnglesRight ==
    SampledRod => (cell_para[4] = Ang90 /\ cell_para[5] = Ang90 /\ cell_para[6] = Ang90)

\* parameters were returned for the Rod group 5, a other than b
C29_Witness == SampledRod /\ number = 5 /\ cell_para[1] # cell_para[2]

\* ---- Add_vacuum alone
\*
\* cell_para are the parameters of the lattice, cell_matrix the matrix
\* Add_vacuum is given and changes in place, coordinates_total the relative
\* coordinates it is given; at return lattice and coordinates are the values
\* returned.

\* the parameters of the lattices Add_vacuum is applied to: right cells and
\* cells of a beta of the 3-4-5 triangle
VacuumParas ==
    {<<e[1], e[2], e[3], Ang90, e[4], Ang90>> :
        e \in {4000, 8000} \X {4000, 8000} \X {4000, 8000} \X {Ang90, Ang53, Ang127}}

InitVacuum ==
    /\ pc = "vacuum"
    /\ cell_para \in VacuumParas
    /\ cell_matrix = para2matrix(cell_para)
    /\ PBC \in {{1, 2, 3}, {1, 2}, {3}}
    /\ dim = (CASE PBC = {1, 2, 3} -> 3 [] PBC = {1, 2} -> 2 [] PBC = {3} -> 1)
    /\ coordinates_total \in Lists(PointSamples) \ {<<>>}
    /\ sites_total = array([i \in 1..Len(coordinates_total) |-> "C"])
    /\ lattice = <<>> /\ coordinates = <<>>
    /\ sg = 0 /\ number = 0 /\ factor = 1000
    /\ species = <<"C">> /\ numIons0 = <<Len(coordinates_total)>> /\ numIons = numIons0
    /\ thickness = <<>> /\ area = <<>> /\ volume = 0
    /\ wyckoffs = <<>> /\ wyckoffs_organized = <<>>
    /\ numattempts = 0
    /\ max1 = 1 /\ max2 = 1 /\ max3 = 1
    /\ struct = "unset" /\ valid = "unset"
    /\ sites = <<>> /\ returned = "unset" /\ exception = "None"
    /\ degrees = "unset" /\ minvector = 0
    /\ cycle1 = 0 /\ cycle2 = 0 /\ cycle3 = 0 /\ sp = 0 /\ numIon_added = 0
    /\ coordinates_tmp = <<>> /\ sites_tmp = <<>> /\ good_structure = TRUE
    /\ cancel = <<>>

\* the call Add_vacuum(final_lattice, final_coor, PBC=self.PBC)
AddVacuum ==
    /\ pc = "vacuum"
    /\ LET final == Add_vacuum(cell_matrix, coordinates_total, PBC)
       IN  /\ lattice' = final.lattice
           /\ cell_matrix' = final.lattice
           /\ coordinates' = final.coor
    /\ pc' = "done"
    /\ UNCHANGED <<fields, numattempts, struct, valid, sites, returned, exception, budgets,
                   cycle1, cycle2, cycle3, sp, numIon_added, cell_para, accumulators, cancel>>

NextVacuum == AddVacuum

SpecVacuum == InitVacuum /\ [][NextVacuum]_vars

\* the vectors u and v point the same way
same_direction(u, v) ==
    /\ \A j \in 1..3 : \A k \in 1..3 : u[j] * v[k] = u[k] * v[j]
    /\ u[1] * v[1] + u[2] * v[2] + u[3] * v[3] > 0

\* the Cartesian positions u and v differ by no more than a thousandth of the
\* cell m allows
same_position(u, v, m) ==
    \A k \in 1..3 :
        Abs(u[k] - v[k]) <= (Abs(m[1][k]) + Abs(m[2][k]) + Abs(m[3][k])) \div OutDen + 2

\* C30: Add_vacuum returns the vectors of the periodic axes as they were and
\* those of the other axes longer by vacuum in their own direction; with three
\* periodic axes the lattice and the relative coordinates are as given; the
\* Cartesian positions are the same before and after
C30_VacuumAdded ==
    pc = "done" =>
        LET before == para2matrix(cell_para)
        IN  /\ \A a \in PBC : lattice[a] = before[a]
            /\ \A a \in (1..3) \ PBC :
                  /\ norm(lattice[a]) = norm(before[a]) + vacuum
                  /\ same_direction(lattice[a], before[a])
            /\ PBC = {1, 2, 3} =>
                  /\ lattice = before
                  /\ \A i \in 1..Len(coordinates) : \A j \in 1..3 :
                        coordinates[i][j] * Den = coordinates_total[i][j] * OutDen
            /\ Len(coordinates) = Len(coordinates_total)
            /\ \A i \in 1..Len(coordinates) :
                  same_position(cartesian_den(coordinates[i], lattice, OutDen),
                                cartesian(coordinates_total[i], before), lattice)

\* vacuum was added along an axis c that is not at right angles to a, for an
\* atom off the plane of a and b
C30_Witness ==
    /\ pc = "done" /\ PBC = {1, 2} /\ cell_para[5] # Ang90
    /\ \E i \in 1..Len(coordinates_total) : coordinates_total[i][3] # 0
====
